---- MODULE Spec2Model ----
(***************************************************************************)
(* Model of libi2clcd: an HD44780 character LCD driven through a PCF8574   *)
(* I2C expander (src/src/i2clcd.c).  The state is one display session      *)
(* (struct i2clcd_ctx), the API call in progress with its arguments and    *)
(* result, and the log of what that call did on the bus: every byte        *)
(* written, every write that failed, every delay.                          *)
(***************************************************************************)
EXTENDS Integers, Sequences, FiniteSets, TLC

VARIABLES
    session,    \* "none" before i2clcd_open / i2clcd_init succeeded, "open"
                \* after, "closed" once i2clcd_deinit has freed the handle
    ctx,        \* struct i2clcd_ctx of the session
    call,       \* the API call that ran last: operation, arguments, result
    log,        \* what that call did: <<"w", byte>>, <<"f", byte>>, <<"d", us>>
    rel,        \* how often close(fd) and free(handle) were called: [close, free]
    delay       \* the call of i2clcd_delay_us in progress: us, ts, time slept

vars == <<session, ctx, call, log, rel, delay>>

(***************************************************************************)
(* Bounds of the model.                                                    *)
(***************************************************************************)
MaxFailAt == 5          \* a bus fault starts at write attempt 1..MaxFailAt
MaxTextLen == 3         \* strings have 0..MaxTextLen characters
MaxCustomCols == 2      \* I2CLCD_CUSTOM columns 0..MaxCustomCols
MaxCustomRows == 5      \* I2CLCD_CUSTOM rows 0..MaxCustomRows
WideCols == 129         \* one wide I2CLCD_CUSTOM display
WideRows == 2
MaxColArg == 21         \* column arguments 0..MaxColArg (and the edges of WideCols)
MaxFrees == 2           \* i2clcd_deinit frees a handle at most MaxFrees times
MaxDelayUs == 2000001   \* i2clcd_delay_us is called with at most MaxDelayUs
MaxInterrupts == 3      \* signals that interrupt one call of i2clcd_delay_us
MaxRendered == 129      \* a format renders to at most MaxRendered characters
MaxRowArg == 6          \* row, line and slot arguments 0..MaxRowArg and 8

(***************************************************************************)
(* Constants of the source.                                                *)
(***************************************************************************)
I2CLCD_OK == 0
I2CLCD_ERR_OPEN == 0 - 1
I2CLCD_ERR_IOCTL == 0 - 2
I2CLCD_ERR_WRITE == 0 - 3
I2CLCD_ERR_INVALID_ARG == 0 - 4
I2CLCD_ERR_NOT_INIT == 0 - 5
I2CLCD_ERR_RANGE == 0 - 6

I2CLCD_16X2 == 0
I2CLCD_20X4 == 1
I2CLCD_CUSTOM == 2

PCF8574_PIN_RS == 1
PCF8574_PIN_RW == 2
PCF8574_PIN_EN == 4
PCF8574_PIN_BL == 8
PCF8574_DATA_MASK == 240

HD44780_CMD_CLEAR == 1
HD44780_CMD_HOME == 2
HD44780_CMD_ENTRY_MODE == 4
HD44780_CMD_DISPLAY_CTRL == 8
HD44780_CMD_FUNCTION_SET == 32
HD44780_CMD_SET_CGRAM == 64
HD44780_CMD_SET_DDRAM == 128
HD44780_ENTRY_INC == 2
HD44780_DISPLAY_ON == 4
HD44780_CURSOR_ON == 2
HD44780_BLINK_ON == 1
HD44780_8BIT_MODE == 16
HD44780_4BIT_MODE == 0
HD44780_2LINE == 8
HD44780_5X8_DOTS == 0
HD44780_LINE0_ADDR == 0
HD44780_LINE1_ADDR == 64
HD44780_LINE2_ADDR == 20
HD44780_LINE3_ADDR == 84
HD44780_DELAY_CLEAR_US == 1600
HD44780_DELAY_CMD_US == 50
HD44780_DELAY_ENABLE_US == 1
HD44780_DELAY_INIT_MS == 50
PrintfBufSize == 128     \* char buf[128] of i2clcd_printf

(***************************************************************************)
(* C integer arithmetic.                                                   *)
(***************************************************************************)
\* bit i of x
Bit(x, i) == (x \div (2 ^ i)) % 2

\* x & y, bit by bit from the lowest
RECURSIVE BitAnd(_, _)
BitAnd(x, y) ==
    IF x = 0 \/ y = 0 THEN 0
    ELSE (x % 2) * (y % 2) + 2 * BitAnd(x \div 2, y \div 2)

\* x | y
BitOr(x, y) == x + y - BitAnd(x, y)

\* conversion to uint8_t
U8(x) == x % 256

\* x & ~flag on a uint8_t x
BitClear(x, flag) == BitAnd(x, 255 - flag)

(***************************************************************************)
(* The bus.  A running call is a record m: the session's ctx, the log so   *)
(* far, the number n of write(2) attempts so far, the fault plan of the    *)
(* bus (attempts plan.from..plan.to fail) and the C return value ret of    *)
(* the function that ran last.                                             *)
(***************************************************************************)
Forever == 1000000

NoFault == [from |-> 1, to |-> 0]

FaultPlans ==
    {NoFault} \cup
    {[from |-> f, to |-> f] : f \in 1..MaxFailAt} \cup
    {[from |-> f, to |-> Forever] : f \in 1..MaxFailAt}

\* isnull: the handle the caller passed is NULL; out: what *on receives
Start(c, plan) ==
    [ctx |-> c, log |-> <<>>, n |-> 0, plan |-> plan, ret |-> 0,
     isnull |-> FALSE, out |-> FALSE, size |-> <<0, 0>>]

StartOn(isnull, c, plan) == [Start(c, plan) EXCEPT !.isnull = isnull]

Ret(m, r) == [m EXCEPT !.ret = r]

i2clcd_delay_us(m, us) == [m EXCEPT !.log = Append(@, <<"d", us>>)]

i2clcd_delay_ms(m, ms) == i2clcd_delay_us(m, ms * 1000)

i2clcd_i2c_write_byte(m, byte) ==
    LET k == m.n + 1
        failed == m.plan.from <= k /\ k <= m.plan.to
    IN  [m EXCEPT !.n = k,
                  !.log = Append(@, <<IF failed THEN "f" ELSE "w", byte>>),
                  !.ret = IF failed THEN 0 - 1 ELSE 0]

\* the enable edge reversed: enable low first, then high
write_nibble_rising(m, nibble, rs) ==
    LET data == (nibble \div 16) * 16 + (IF rs THEN 1 ELSE 0)
                + (IF m.ctx.backlight THEN 8 ELSE 0)
        lo == i2clcd_i2c_write_byte(m, data)
    IN  IF lo.ret < 0 THEN lo
        ELSE i2clcd_i2c_write_byte(i2clcd_delay_us(lo, 1), data + 4)

\* i2clcd_write_nibble, were it to raise the read/write pin with enable
write_nibble_rw_set(m, nibble, rs) ==
    LET d0 == BitAnd(nibble, PCF8574_DATA_MASK)
        d1 == IF rs THEN BitOr(d0, PCF8574_PIN_RS) ELSE d0
        data == IF m.ctx.backlight THEN BitOr(d1, PCF8574_PIN_BL) ELSE d1
        hi == i2clcd_i2c_write_byte(
                  m, BitOr(BitOr(data, PCF8574_PIN_EN), PCF8574_PIN_RW))
    IN  IF hi.ret < 0 THEN hi
        ELSE LET lo == i2clcd_i2c_write_byte(
                           i2clcd_delay_us(hi, HD44780_DELAY_ENABLE_US), data)
             IN  IF lo.ret < 0 THEN lo
                 ELSE Ret(i2clcd_delay_us(lo, HD44780_DELAY_CMD_US), 0)

\* i2clcd_write_nibble, were it to keep the backlight pin high
write_nibble_backlight_on(m, nibble, rs) ==
    LET d0 == BitAnd(nibble, PCF8574_DATA_MASK)
        d1 == IF rs THEN BitOr(d0, PCF8574_PIN_RS) ELSE d0
        data == BitOr(d1, PCF8574_PIN_BL)
        hi == i2clcd_i2c_write_byte(m, BitOr(data, PCF8574_PIN_EN))
    IN  IF hi.ret < 0 THEN hi
        ELSE LET lo == i2clcd_i2c_write_byte(
                           i2clcd_delay_us(hi, HD44780_DELAY_ENABLE_US), data)
             IN  IF lo.ret < 0 THEN lo
                 ELSE Ret(i2clcd_delay_us(lo, HD44780_DELAY_CMD_US), 0)

i2clcd_write_nibble(m, nibble, rs) ==
    LET d0 == BitAnd(nibble, PCF8574_DATA_MASK)
        d1 == IF rs THEN BitOr(d0, PCF8574_PIN_RS) ELSE d0
        data == IF m.ctx.backlight THEN BitOr(d1, PCF8574_PIN_BL) ELSE d1
        hi == i2clcd_i2c_write_byte(m, BitOr(data, PCF8574_PIN_EN))
    IN  IF hi.ret < 0 THEN hi
        ELSE LET lo == i2clcd_i2c_write_byte(
                           i2clcd_delay_us(hi, HD44780_DELAY_ENABLE_US), data)
             IN  IF lo.ret < 0 THEN lo
                 ELSE Ret(i2clcd_delay_us(lo, HD44780_DELAY_CMD_US), 0)

\* the nibbles in the other order
write_byte_low_first(m, byte, rs) ==
    LET first == i2clcd_write_nibble(m, BitAnd(byte * 16, 240), rs)
    IN  IF first.ret < 0 THEN first
        ELSE i2clcd_write_nibble(first, BitAnd(byte, 240), rs)

\* the second nibble sent although the first failed
write_byte_keeps_going(m, byte, rs) ==
    i2clcd_write_nibble(i2clcd_write_nibble(m, BitAnd(byte, 240), rs),
                        BitAnd(byte * 16, 240), rs)

i2clcd_write_byte(m, byte, rs) ==
    LET first == i2clcd_write_nibble(m, BitAnd(byte, 240), rs)
    IN  IF first.ret < 0 THEN first
        ELSE i2clcd_write_nibble(first, BitAnd(byte * 16, 240), rs)

i2clcd_command(m, cmd) == i2clcd_write_byte(m, cmd, FALSE)

i2clcd_data(m, data) == i2clcd_write_byte(m, data, TRUE)

i2clcd_update_display_ctrl(m) ==
    i2clcd_command(m, BitOr(HD44780_CMD_DISPLAY_CTRL, m.ctx.display_ctrl))

(***************************************************************************)
(* Session creation.                                                       *)
(***************************************************************************)
DefaultAddr == 39
DefaultFd == 3

\* the struct after calloc
ZeroCtx ==
    [fd |-> 0, i2c_addr |-> 0, cols |-> 0, rows |-> 0, display_ctrl |-> 0,
     entry_mode |-> 0, backlight |-> FALSE, line_addr |-> <<0, 0, 0, 0>>]

\* i2clcd_config_t values a caller passes; isnull: the config pointer is NULL
\* custom sizes: every row count at the widest small width, every small width
\* on one row, and one wide display
CustomDims ==
    {d \in (0..MaxCustomCols) \X (0..MaxCustomRows) :
        d[1] = MaxCustomCols \/ d[2] = 1} \cup {<<WideCols, WideRows>>}

Configs ==
    {[isnull |-> n, i2c_addr |-> DefaultAddr, size |-> s, cols |-> 20,
      rows |-> 4, backlight |-> b] :
        n \in {FALSE}, s \in {I2CLCD_16X2, I2CLCD_20X4, 3}, b \in BOOLEAN} \cup
    {[isnull |-> n, i2c_addr |-> DefaultAddr, size |-> s, cols |-> d[1],
      rows |-> d[2], backlight |-> b] :
        n \in {FALSE}, s \in {I2CLCD_CUSTOM}, d \in CustomDims, b \in BOOLEAN} \cup
    {[isnull |-> TRUE, i2c_addr |-> 0, size |-> 0, cols |-> 0, rows |-> 0,
      backlight |-> FALSE]}

\* what the system does for calloc, open and ioctl
Envs == {"ok", "calloc_fails", "open_fails", "ioctl_fails"}

\* i2clcd_open, were the third row to start at 0x10
open_line2_overlaps(config, env) ==
    IF config.isnull THEN [err |-> I2CLCD_ERR_INVALID_ARG, ctx |-> ZeroCtx]
    ELSE IF env = "calloc_fails" THEN [err |-> I2CLCD_ERR_OPEN, ctx |-> ZeroCtx]
    ELSE IF config.size \notin {I2CLCD_16X2, I2CLCD_20X4, I2CLCD_CUSTOM}
    THEN [err |-> I2CLCD_ERR_INVALID_ARG, ctx |-> ZeroCtx]
    ELSE IF env = "open_fails" THEN [err |-> I2CLCD_ERR_OPEN, ctx |-> ZeroCtx]
    ELSE IF env = "ioctl_fails" THEN [err |-> I2CLCD_ERR_IOCTL, ctx |-> ZeroCtx]
    ELSE [err |-> I2CLCD_OK,
          ctx |-> [fd |-> DefaultFd,
                   i2c_addr |-> config.i2c_addr,
                   cols |-> CASE config.size = I2CLCD_16X2 -> 16
                              [] config.size = I2CLCD_20X4 -> 20
                              [] OTHER -> config.cols,
                   rows |-> CASE config.size = I2CLCD_16X2 -> 2
                              [] config.size = I2CLCD_20X4 -> 4
                              [] OTHER -> config.rows,
                   display_ctrl |-> HD44780_DISPLAY_ON,
                   entry_mode |-> HD44780_ENTRY_INC,
                   backlight |-> config.backlight,
                   line_addr |-> <<HD44780_LINE0_ADDR, HD44780_LINE1_ADDR,
                                   16, HD44780_LINE3_ADDR>>]]

\* the result: err and, when err is I2CLCD_OK, the new ctx
i2clcd_open(config, env) ==
    IF config.isnull THEN [err |-> I2CLCD_ERR_INVALID_ARG, ctx |-> ZeroCtx]
    ELSE IF env = "calloc_fails" THEN [err |-> I2CLCD_ERR_OPEN, ctx |-> ZeroCtx]
    ELSE IF config.size \notin {I2CLCD_16X2, I2CLCD_20X4, I2CLCD_CUSTOM}
    THEN [err |-> I2CLCD_ERR_INVALID_ARG, ctx |-> ZeroCtx]
    ELSE IF env = "open_fails" THEN [err |-> I2CLCD_ERR_OPEN, ctx |-> ZeroCtx]
    ELSE IF env = "ioctl_fails" THEN [err |-> I2CLCD_ERR_IOCTL, ctx |-> ZeroCtx]
    ELSE [err |-> I2CLCD_OK,
          ctx |-> [fd |-> DefaultFd,
                   i2c_addr |-> config.i2c_addr,
                   cols |-> CASE config.size = I2CLCD_16X2 -> 16
                              [] config.size = I2CLCD_20X4 -> 20
                              [] OTHER -> config.cols,
                   rows |-> CASE config.size = I2CLCD_16X2 -> 2
                              [] config.size = I2CLCD_20X4 -> 4
                              [] OTHER -> config.rows,
                   display_ctrl |-> HD44780_DISPLAY_ON,
                   entry_mode |-> HD44780_ENTRY_INC,
                   backlight |-> config.backlight,
                   line_addr |-> <<HD44780_LINE0_ADDR, HD44780_LINE1_ADDR,
                                   HD44780_LINE2_ADDR, HD44780_LINE3_ADDR>>]]

\* display-on sent before entry-mode
InitSequence_reordered(m0) ==
    LET m1 == i2clcd_i2c_write_byte(
                  m0, IF m0.ctx.backlight THEN PCF8574_PIN_BL ELSE 0)
        m4 == i2clcd_write_nibble(m1, 48, FALSE)
        m5 == i2clcd_write_nibble(m4, 48, FALSE)
        m6 == i2clcd_write_nibble(m5, 48, FALSE)
        m7 == i2clcd_write_nibble(m6, 32, FALSE)
        m8 == i2clcd_command(m7, 40)
        m9 == i2clcd_command(m8, 8)
        m10 == i2clcd_command(m9, 12)
        m11 == i2clcd_command(m10, 6)
    IN  Ret([m11 EXCEPT !.ctx.display_ctrl = HD44780_DISPLAY_ON,
                        !.ctx.entry_mode = HD44780_ENTRY_INC], I2CLCD_OK)

\* the 8-bit function set sent twice instead of three times
InitSequence_two_resets(m0) ==
    LET m1 == i2clcd_i2c_write_byte(
                  m0, IF m0.ctx.backlight THEN PCF8574_PIN_BL ELSE 0)
        m4 == i2clcd_write_nibble(m1, 48, FALSE)
        m5 == i2clcd_write_nibble(m4, 48, FALSE)
        m7 == i2clcd_write_nibble(m5, 32, FALSE)
        m8 == i2clcd_command(m7, 40)
        m9 == i2clcd_command(m8, 8)
        m10 == i2clcd_command(m9, 6)
        m11 == i2clcd_command(m10, 12)
    IN  Ret([m11 EXCEPT !.ctx.display_ctrl = HD44780_DISPLAY_ON,
                        !.ctx.entry_mode = HD44780_ENTRY_INC], I2CLCD_OK)

\* "Start with backlight state, all control pins low"
init_backlight_state(m) ==
    i2clcd_i2c_write_byte(m, IF m.ctx.backlight THEN PCF8574_PIN_BL ELSE 0)

\* "Step 4: Display off"
init_display_off(m) ==
    i2clcd_command([m EXCEPT !.ctx.display_ctrl = 0], HD44780_CMD_DISPLAY_CTRL)

\* the command sent for the entry_mode recorded in m
entry_mode_command(m) ==
    i2clcd_command(m, BitOr(HD44780_CMD_ENTRY_MODE, m.ctx.entry_mode))

\* "Step 5: Entry mode set (increment, no shift)"
init_entry_mode(m) ==
    entry_mode_command([m EXCEPT !.ctx.entry_mode = HD44780_ENTRY_INC])

\* the command sent for the display_ctrl recorded in m
display_ctrl_command(m) ==
    i2clcd_command(m, BitOr(HD44780_CMD_DISPLAY_CTRL, m.ctx.display_ctrl))

\* step 6 of i2clcd_init, were it to record and switch the cursor on as well
init_display_on_with_cursor(m) ==
    display_ctrl_command(
        [m EXCEPT !.ctx.display_ctrl = BitOr(HD44780_DISPLAY_ON, HD44780_CURSOR_ON)])

\* "Step 6: Display on (cursor and blink off by default)"
init_display_on(m) ==
    display_ctrl_command([m EXCEPT !.ctx.display_ctrl = HD44780_DISPLAY_ON])

\* the init sequence, were the wait after the first 0x30 5 us and not 5 ms
InitSequence_short_wait(m0) ==
    LET m1 == i2clcd_delay_ms(m0, HD44780_DELAY_INIT_MS)
        m2 == init_backlight_state(m1)
        m3 == i2clcd_delay_ms(m2, 1)
        m4 == i2clcd_delay_us(i2clcd_write_nibble(m3, 48, FALSE), 5)
        m5 == i2clcd_delay_us(i2clcd_write_nibble(m4, 48, FALSE), 150)
        m6 == i2clcd_delay_us(i2clcd_write_nibble(m5, 48, FALSE), 150)
        m7 == i2clcd_delay_us(i2clcd_write_nibble(m6, 32, FALSE),
                              HD44780_DELAY_CMD_US)
        m8 == i2clcd_command(
                  m7, BitOr(BitOr(BitOr(HD44780_CMD_FUNCTION_SET, HD44780_4BIT_MODE),
                                  HD44780_2LINE), HD44780_5X8_DOTS))
        m9 == init_display_off(m8)
        m10 == init_entry_mode(m9)
        m11 == init_display_on(m10)
    IN  Ret(m11, I2CLCD_OK)

\* the init sequence on a freshly opened ctx; the writes' results are dropped
InitSequence(m0) ==
    LET m1 == i2clcd_delay_ms(m0, HD44780_DELAY_INIT_MS)
        m2 == init_backlight_state(m1)
        m3 == i2clcd_delay_ms(m2, 1)
        m4 == i2clcd_delay_ms(i2clcd_write_nibble(m3, 48, FALSE), 5)
        m5 == i2clcd_delay_us(i2clcd_write_nibble(m4, 48, FALSE), 150)
        m6 == i2clcd_delay_us(i2clcd_write_nibble(m5, 48, FALSE), 150)
        m7 == i2clcd_delay_us(i2clcd_write_nibble(m6, 32, FALSE),
                              HD44780_DELAY_CMD_US)
        m8 == i2clcd_command(
                  m7, BitOr(BitOr(BitOr(HD44780_CMD_FUNCTION_SET, HD44780_4BIT_MODE),
                                  HD44780_2LINE), HD44780_5X8_DOTS))
        m9 == init_display_off(m8)
        m10 == init_entry_mode(m9)
        m11 == init_display_on(m10)
    IN  Ret(m11, I2CLCD_OK)

\* a running call that returns r without touching the bus
Fail(c, r) == Ret(Start(c, NoFault), r)

i2clcd_init(config, env, plan) ==
    LET o == i2clcd_open(config, env)
    IN  IF o.err # I2CLCD_OK THEN Fail(o.ctx, o.err)
        ELSE InitSequence(Start(o.ctx, plan))


\* fd: handle->fd as the call reads it; r: the calls of close and free made
\* so far; the result: those calls after i2clcd_deinit
i2clcd_deinit(isnull, fd, r) ==
    IF isnull THEN r
    ELSE [close |-> r.close + (IF fd >= 0 THEN 1 ELSE 0), free |-> r.free + 1]

(***************************************************************************)
(* Display control, cursor, text, backlight, custom characters.            *)
(***************************************************************************)
\* i2clcd_clear, were it to give up the bus handle when the write fails
clear_drops_fd_on_failure(m) ==
    IF m.isnull THEN Ret(m, I2CLCD_ERR_NOT_INIT)
    ELSE LET c == i2clcd_command(m, HD44780_CMD_CLEAR)
         IN  IF c.ret < 0
             THEN Ret([c EXCEPT !.ctx.fd = 0 - 1], I2CLCD_ERR_WRITE)
             ELSE Ret(i2clcd_delay_us(c, HD44780_DELAY_CLEAR_US), I2CLCD_OK)

i2clcd_clear(m) ==
    IF m.isnull THEN Ret(m, I2CLCD_ERR_NOT_INIT)
    ELSE LET c == i2clcd_command(m, HD44780_CMD_CLEAR)
         IN  IF c.ret < 0 THEN Ret(c, I2CLCD_ERR_WRITE)
             ELSE Ret(i2clcd_delay_us(c, HD44780_DELAY_CLEAR_US), I2CLCD_OK)

\* the loop of i2clcd_delay_us, were it to give up when interrupted
delay_gives_up(r) == FALSE

\* i2clcd_home, were it to wait the ordinary 50 us only
home_short_settle(m) ==
    IF m.isnull THEN Ret(m, I2CLCD_ERR_NOT_INIT)
    ELSE LET c == i2clcd_command(m, HD44780_CMD_HOME)
         IN  IF c.ret < 0 THEN Ret(c, I2CLCD_ERR_WRITE)
             ELSE Ret(i2clcd_delay_us(c, HD44780_DELAY_CMD_US), I2CLCD_OK)

\* i2clcd_home, were it to record entry mode 0 for the session
home_clears_entry_mode(m) ==
    IF m.isnull THEN Ret(m, I2CLCD_ERR_NOT_INIT)
    ELSE LET c == i2clcd_command([m EXCEPT !.ctx.entry_mode = 0], HD44780_CMD_HOME)
         IN  IF c.ret < 0 THEN Ret(c, I2CLCD_ERR_WRITE)
             ELSE Ret(i2clcd_delay_us(c, HD44780_DELAY_CLEAR_US), I2CLCD_OK)

i2clcd_home(m) ==
    IF m.isnull THEN Ret(m, I2CLCD_ERR_NOT_INIT)
    ELSE LET c == i2clcd_command(m, HD44780_CMD_HOME)
         IN  IF c.ret < 0 THEN Ret(c, I2CLCD_ERR_WRITE)
             ELSE Ret(i2clcd_delay_us(c, HD44780_DELAY_CLEAR_US), I2CLCD_OK)

\* line_addr[row]; a row past the 4 slots reads whatever byte lies there: junk
LineAddr(c, row, junk) == IF row < 4 THEN c.line_addr[row + 1] ELSE junk

\* the range check off by one
set_cursor_off_by_one(m, col, row, junk) ==
    IF m.isnull THEN Ret(m, I2CLCD_ERR_NOT_INIT)
    ELSE IF row > m.ctx.rows \/ col > m.ctx.cols THEN Ret(m, I2CLCD_ERR_RANGE)
    ELSE LET c == i2clcd_command(
                      m, BitOr(HD44780_CMD_SET_DDRAM,
                               U8(LineAddr(m.ctx, row, junk) + col)))
         IN  IF c.ret < 0 THEN Ret(c, I2CLCD_ERR_WRITE) ELSE Ret(c, I2CLCD_OK)

i2clcd_set_cursor(m, col, row, junk) ==
    IF m.isnull THEN Ret(m, I2CLCD_ERR_NOT_INIT)
    ELSE IF row >= m.ctx.rows \/ col >= m.ctx.cols THEN Ret(m, I2CLCD_ERR_RANGE)
    ELSE LET addr == U8(LineAddr(m.ctx, row, junk) + col)
             c == i2clcd_command(m, BitOr(HD44780_CMD_SET_DDRAM, addr))
         IN  IF c.ret < 0 THEN Ret(c, I2CLCD_ERR_WRITE) ELSE Ret(c, I2CLCD_OK)

\* one pass of the for loop of i2clcd_clear_line
clear_line_step(m) ==
    LET d == i2clcd_data(m, 32)
    IN  IF d.ret < 0 THEN Ret(d, I2CLCD_ERR_WRITE) ELSE Ret(d, I2CLCD_OK)

\* the passes i = lo .. hi - 1 of the loop, in order, up to the first that
\* returns; the range is halved so that a long line does not nest deeply
RECURSIVE clear_line_loop(_, _, _)
clear_line_loop(m, lo, hi) ==
    IF lo >= hi THEN Ret(m, I2CLCD_OK)
    ELSE IF hi = lo + 1 THEN clear_line_step(m)
    ELSE LET mid == (lo + hi) \div 2
             a == clear_line_loop(m, lo, mid)
         IN  IF a.ret # I2CLCD_OK THEN a ELSE clear_line_loop(a, mid, hi)

i2clcd_clear_line(m, line, junk) ==
    IF m.isnull THEN Ret(m, I2CLCD_ERR_NOT_INIT)
    ELSE IF line >= m.ctx.rows THEN Ret(m, I2CLCD_ERR_RANGE)
    ELSE LET p == i2clcd_set_cursor(m, 0, line, junk)
         IN  IF p.ret # I2CLCD_OK THEN p ELSE clear_line_loop(p, 0, p.ctx.cols)

i2clcd_display(m, on) ==
    IF m.isnull THEN Ret(m, I2CLCD_ERR_NOT_INIT)
    ELSE LET f == IF on THEN BitOr(m.ctx.display_ctrl, HD44780_DISPLAY_ON)
                  ELSE BitClear(m.ctx.display_ctrl, HD44780_DISPLAY_ON)
             u == i2clcd_update_display_ctrl([m EXCEPT !.ctx.display_ctrl = f])
         IN  IF u.ret < 0 THEN Ret(u, I2CLCD_ERR_WRITE) ELSE Ret(u, I2CLCD_OK)

\* the cursor bit assigned instead of or-ed in
cursor_drops_blink(m, visible) ==
    IF m.isnull THEN Ret(m, I2CLCD_ERR_NOT_INIT)
    ELSE LET f == IF visible
                  THEN BitOr(BitAnd(m.ctx.display_ctrl, HD44780_DISPLAY_ON),
                             HD44780_CURSOR_ON)
                  ELSE BitClear(m.ctx.display_ctrl, HD44780_CURSOR_ON)
             u == i2clcd_update_display_ctrl([m EXCEPT !.ctx.display_ctrl = f])
         IN  IF u.ret < 0 THEN Ret(u, I2CLCD_ERR_WRITE) ELSE Ret(u, I2CLCD_OK)

i2clcd_cursor(m, visible) ==
    IF m.isnull THEN Ret(m, I2CLCD_ERR_NOT_INIT)
    ELSE LET f == IF visible THEN BitOr(m.ctx.display_ctrl, HD44780_CURSOR_ON)
                  ELSE BitClear(m.ctx.display_ctrl, HD44780_CURSOR_ON)
             u == i2clcd_update_display_ctrl([m EXCEPT !.ctx.display_ctrl = f])
         IN  IF u.ret < 0 THEN Ret(u, I2CLCD_ERR_WRITE) ELSE Ret(u, I2CLCD_OK)

i2clcd_blink(m, blink) ==
    IF m.isnull THEN Ret(m, I2CLCD_ERR_NOT_INIT)
    ELSE LET f == IF blink THEN BitOr(m.ctx.display_ctrl, HD44780_BLINK_ON)
                  ELSE BitClear(m.ctx.display_ctrl, HD44780_BLINK_ON)
             u == i2clcd_update_display_ctrl([m EXCEPT !.ctx.display_ctrl = f])
         IN  IF u.ret < 0 THEN Ret(u, I2CLCD_ERR_WRITE) ELSE Ret(u, I2CLCD_OK)

i2clcd_putc(m, c) ==
    IF m.isnull THEN Ret(m, I2CLCD_ERR_NOT_INIT)
    ELSE LET d == i2clcd_data(m, U8(c))
         IN  IF d.ret < 0 THEN Ret(d, I2CLCD_ERR_WRITE) ELSE Ret(d, I2CLCD_OK)

\* the while (*str) loop; i is the position of str in the string
\* one pass of the loop, were it to set the address before each character
puts_step_addressing(m, str, i) ==
    LET a == i2clcd_command(m, BitOr(HD44780_CMD_SET_DDRAM, i - 1))
        d == i2clcd_data(a, U8(str[i]))
    IN  IF d.ret < 0 THEN Ret(d, I2CLCD_ERR_WRITE) ELSE Ret(d, I2CLCD_OK)

\* one pass of the loop: the character str[i]
puts_step(m, str, i) ==
    LET d == i2clcd_data(m, U8(str[i]))
    IN  IF d.ret < 0 THEN Ret(d, I2CLCD_ERR_WRITE) ELSE Ret(d, I2CLCD_OK)

\* the passes for str[lo + 1] .. str[hi], in order, up to the first that
\* returns; the range is halved so that a long string does not nest deeply
RECURSIVE puts_loop(_, _, _, _)
puts_loop(m, str, lo, hi) ==
    IF lo >= hi THEN Ret(m, I2CLCD_OK)
    ELSE IF hi = lo + 1 THEN puts_step(m, str, hi)
    ELSE LET mid == (lo + hi) \div 2
             a == puts_loop(m, str, lo, mid)
         IN  IF a.ret # I2CLCD_OK THEN a ELSE puts_loop(a, str, mid, hi)

\* strnull: the str pointer is NULL
i2clcd_puts(m, str, strnull) ==
    IF m.isnull THEN Ret(m, I2CLCD_ERR_NOT_INIT)
    ELSE IF strnull THEN Ret(m, I2CLCD_ERR_INVALID_ARG)
    ELSE puts_loop(m, str, 0, Len(str))

\* vsnprintf, were it to fill all size bytes of the buffer with characters
vsnprintf_fills_buffer(rendered, size) ==
    SubSeq(rendered, 1, IF Len(rendered) < size THEN Len(rendered) ELSE size)

\* what vsnprintf leaves in a buffer of size bytes: at most size - 1
\* characters of the rendered text
vsnprintf(rendered, size) ==
    SubSeq(rendered, 1, IF Len(rendered) < size THEN Len(rendered) ELSE size - 1)

\* rendered: the text the format and its arguments produce; fmtnull: the
\* fmt pointer is NULL
i2clcd_printf(m, rendered, fmtnull) ==
    IF m.isnull THEN Ret(m, I2CLCD_ERR_NOT_INIT)
    ELSE IF fmtnull THEN Ret(m, I2CLCD_ERR_INVALID_ARG)
    ELSE i2clcd_puts(m, vsnprintf(rendered, PrintfBufSize), FALSE)

\* one pass of the for loop of i2clcd_set_line; i counts from 0
set_line_step(m, text, i) ==
    LET c == IF i < Len(text) THEN text[i + 1] ELSE 32
        d == i2clcd_data(m, U8(c))
    IN  IF d.ret < 0 THEN Ret(d, I2CLCD_ERR_WRITE) ELSE Ret(d, I2CLCD_OK)

\* the passes i = lo .. hi - 1 of the loop, in order, up to the first that
\* returns; the range is halved so that a long line does not nest deeply
RECURSIVE set_line_loop(_, _, _, _)
set_line_loop(m, text, lo, hi) ==
    IF lo >= hi THEN Ret(m, I2CLCD_OK)
    ELSE IF hi = lo + 1 THEN set_line_step(m, text, lo)
    ELSE LET mid == (lo + hi) \div 2
             a == set_line_loop(m, text, lo, mid)
         IN  IF a.ret # I2CLCD_OK THEN a ELSE set_line_loop(a, text, mid, hi)

i2clcd_set_line(m, line, text, textnull, junk) ==
    IF m.isnull THEN Ret(m, I2CLCD_ERR_NOT_INIT)
    ELSE IF textnull THEN Ret(m, I2CLCD_ERR_INVALID_ARG)
    ELSE IF line >= m.ctx.rows THEN Ret(m, I2CLCD_ERR_RANGE)
    ELSE LET p == i2clcd_set_cursor(m, 0, line, junk)
         IN  IF p.ret # I2CLCD_OK THEN p ELSE set_line_loop(p, text, 0, p.ctx.cols)

\* the pin refreshed, the flag not recorded
backlight_not_recorded(m, on) ==
    IF m.isnull THEN Ret(m, I2CLCD_ERR_NOT_INIT)
    ELSE LET w == i2clcd_i2c_write_byte(m, IF on THEN PCF8574_PIN_BL ELSE 0)
         IN  IF w.ret < 0 THEN Ret(w, I2CLCD_ERR_WRITE) ELSE Ret(w, I2CLCD_OK)

i2clcd_backlight(m, on) ==
    IF m.isnull THEN Ret(m, I2CLCD_ERR_NOT_INIT)
    ELSE LET w == i2clcd_i2c_write_byte([m EXCEPT !.ctx.backlight = on],
                                        IF on THEN PCF8574_PIN_BL ELSE 0)
         IN  IF w.ret < 0 THEN Ret(w, I2CLCD_ERR_WRITE) ELSE Ret(w, I2CLCD_OK)

\* the handle tested after the output pointer
backlight_get_checks_on_first(m, onnull) ==
    IF onnull THEN Ret(m, I2CLCD_ERR_INVALID_ARG)
    ELSE IF m.isnull THEN Ret(m, I2CLCD_ERR_NOT_INIT)
    ELSE Ret([m EXCEPT !.out = m.ctx.backlight], I2CLCD_OK)

\* onnull: the on pointer is NULL
i2clcd_backlight_get(m, onnull) ==
    IF m.isnull THEN Ret(m, I2CLCD_ERR_NOT_INIT)
    ELSE IF onnull THEN Ret(m, I2CLCD_ERR_INVALID_ARG)
    ELSE Ret([m EXCEPT !.out = m.ctx.backlight], I2CLCD_OK)

RECURSIVE create_char_loop(_, _, _)
create_char_loop(m, charmap, i) ==
    IF i >= 8 THEN Ret(m, I2CLCD_OK)
    ELSE LET d == i2clcd_data(m, charmap[i + 1])
         IN  IF d.ret < 0 THEN Ret(d, I2CLCD_ERR_WRITE)
             ELSE create_char_loop(d, charmap, i + 1)

\* the return to DDRAM left out
create_char_no_restore(m, location, charmap, mapnull) ==
    IF m.isnull THEN Ret(m, I2CLCD_ERR_NOT_INIT)
    ELSE IF mapnull THEN Ret(m, I2CLCD_ERR_INVALID_ARG)
    ELSE IF location > 7 THEN Ret(m, I2CLCD_ERR_RANGE)
    ELSE LET a == i2clcd_command(m, BitOr(HD44780_CMD_SET_CGRAM, location * 8))
         IN  IF a.ret < 0 THEN Ret(a, I2CLCD_ERR_WRITE)
             ELSE create_char_loop(a, charmap, 0)

\* i2clcd_create_char, were its last command a set-CGRAM-address
create_char_ends_in_cgram(m, location, charmap, mapnull) ==
    IF m.isnull THEN Ret(m, I2CLCD_ERR_NOT_INIT)
    ELSE IF mapnull THEN Ret(m, I2CLCD_ERR_INVALID_ARG)
    ELSE IF location > 7 THEN Ret(m, I2CLCD_ERR_RANGE)
    ELSE LET a == i2clcd_command(m, BitOr(HD44780_CMD_SET_CGRAM, location * 8))
         IN  IF a.ret < 0 THEN Ret(a, I2CLCD_ERR_WRITE)
             ELSE LET b == create_char_loop(a, charmap, 0)
                  IN  IF b.ret # I2CLCD_OK THEN b
                      ELSE LET e == i2clcd_command(b, HD44780_CMD_SET_CGRAM)
                           IN  IF e.ret < 0 THEN Ret(e, I2CLCD_ERR_WRITE)
                               ELSE Ret(e, I2CLCD_OK)

\* mapnull: the charmap pointer is NULL
i2clcd_create_char(m, location, charmap, mapnull) ==
    IF m.isnull THEN Ret(m, I2CLCD_ERR_NOT_INIT)
    ELSE IF mapnull THEN Ret(m, I2CLCD_ERR_INVALID_ARG)
    ELSE IF location > 7 THEN Ret(m, I2CLCD_ERR_RANGE)
    ELSE LET a == i2clcd_command(m, BitOr(HD44780_CMD_SET_CGRAM, location * 8))
         IN  IF a.ret < 0 THEN Ret(a, I2CLCD_ERR_WRITE)
             ELSE LET b == create_char_loop(a, charmap, 0)
                  IN  IF b.ret # I2CLCD_OK THEN b
                      ELSE LET e == i2clcd_command(b, HD44780_CMD_SET_DDRAM)
                           IN  IF e.ret < 0 THEN Ret(e, I2CLCD_ERR_WRITE)
                               ELSE Ret(e, I2CLCD_OK)

\* colsnull, rowsnull: the cols / rows pointer is NULL; size: what *cols and
\* *rows hold afterwards, 0 standing for not written
i2clcd_get_size(m, colsnull, rowsnull) ==
    IF m.isnull THEN Ret(m, I2CLCD_ERR_NOT_INIT)
    ELSE Ret([m EXCEPT !.size = <<IF colsnull THEN 0 ELSE m.ctx.cols,
                                  IF rowsnull THEN 0 ELSE m.ctx.rows>>],
             I2CLCD_OK)

(***************************************************************************)
(* The state machine: one action per API function.                         *)
(***************************************************************************)
Idle ==
    [op |-> "idle", isnull |-> FALSE, col |-> 0, row |-> 0, line |-> 0,
     flag |-> FALSE, text |-> <<>>, nullarg |-> FALSE, location |-> 0,
     byte |-> 0, config |-> 0, ret |-> 0, out |-> FALSE, size |-> <<0, 0>>,
     reissued |-> FALSE, prior |-> 0, sizeopt |-> "n/a"]

\* no call of i2clcd_delay_us in progress
NoDelay ==
    [pc |-> "idle", us |-> 0, ts |-> [tv_sec |-> 0, tv_nsec |-> 0],
     slept |-> 0, interrupts |-> 0]

Init ==
    /\ session = "none"
    /\ ctx = ZeroCtx
    /\ call = Idle
    /\ log = <<>>
    /\ rel = [close |-> 0, free |-> 0]
    /\ delay = NoDelay

\* the caller takes the result; the next call starts a new log
Return ==
    /\ call.op # "idle"
    /\ call' = Idle
    /\ log' = <<>>
    /\ UNCHANGED <<session, ctx, rel, delay>>

OpenWith(configs) ==
    /\ session = "none"
    /\ call.op = "idle"
    /\ \E config \in configs, env \in Envs :
          LET o == i2clcd_open(config, env)
          IN  /\ session' = IF o.err = I2CLCD_OK THEN "open" ELSE "none"
              /\ ctx' = o.ctx
              /\ call' = [Idle EXCEPT !.op = "open", !.isnull = config.isnull,
                                       !.config = config.size,
                                       !.flag = config.backlight, !.ret = o.err]
              /\ log' = <<>>
              /\ UNCHANGED <<rel, delay>>

Act_i2clcd_open == OpenWith(Configs)

Act_i2clcd_init ==
    /\ session = "none"
    /\ call.op = "idle"
    /\ \E config \in Configs, env \in Envs, plan \in FaultPlans :
          LET m == i2clcd_init(config, env, plan)
          IN  /\ session' = IF m.ret = I2CLCD_OK THEN "open" ELSE "none"
              /\ ctx' = m.ctx
              /\ call' = [Idle EXCEPT !.op = "init", !.isnull = config.isnull,
                                       !.config = config.size,
                                       !.flag = config.backlight, !.ret = m.ret]
              /\ log' = m.log
              /\ UNCHANGED <<rel, delay>>


(***************************************************************************)
(* Arguments the callers pass.                                             *)
(***************************************************************************)
\* columns and rows up to one past the session's last, and the largest uint8_t
ColArgs ==
    {x \in (0..MaxColArg) \cup {WideCols - 1, WideCols, 255} :
        x <= ctx.cols + 1 \/ x = 255}

RowArgs == {x \in (0..MaxRowArg) \cup {255} : x <= ctx.rows + 1 \/ x = 255}

LocationArgs == (0..MaxRowArg) \cup {7, 8, 255}

TextChars == {65, 126}

RECURSIVE TextsOfLen(_)
TextsOfLen(k) ==
    IF k = 0 THEN {<<>>}
    ELSE {Append(t, c) : t \in TextsOfLen(k - 1), c \in TextChars}

Texts == UNION {TextsOfLen(k) : k \in 0..MaxTextLen}

PutcChars == {0, 65, 255}

Charmaps == {<<0, 0, 0, 0, 0, 0, 0, 0>>, <<1, 2, 4, 8, 16, 31, 0, 21>>}

\* the byte behind line_addr[row] for a row past the table
JunkBytes(row) == IF row < 4 THEN {0} ELSE {0, 255}

\* a bus that fails from some attempt on, or never
DeadPlans == {p \in FaultPlans : p = NoFault \/ p.to = Forever}

\* the step of an API call on the session: m is the finished call
Finish(c, m) ==
    /\ call' = [c EXCEPT !.isnull = m.isnull, !.ret = m.ret, !.out = m.out,
                          !.size = m.size]
    /\ ctx' = m.ctx
    /\ log' = m.log
    /\ UNCHANGED <<session, rel, delay>>

Ready == session = "open" /\ call.op = "idle"

Act_i2clcd_clear ==
    /\ Ready
    /\ \E isnull \in BOOLEAN, plan \in DeadPlans :
          Finish([Idle EXCEPT !.op = "clear"],
                 i2clcd_clear(StartOn(isnull, ctx, plan)))

Act_i2clcd_home ==
    /\ Ready
    /\ \E isnull \in BOOLEAN, plan \in DeadPlans :
          Finish([Idle EXCEPT !.op = "home"],
                 i2clcd_home(StartOn(isnull, ctx, plan)))

Act_i2clcd_clear_line ==
    /\ Ready
    /\ \E isnull \in BOOLEAN, plan \in DeadPlans, line \in RowArgs :
          \E junk \in JunkBytes(line) :
             Finish([Idle EXCEPT !.op = "clear_line", !.line = line],
                    i2clcd_clear_line(StartOn(isnull, ctx, plan), line, junk))

Act_i2clcd_display ==
    /\ Ready
    /\ \E isnull \in BOOLEAN, plan \in DeadPlans, on \in BOOLEAN :
          Finish([Idle EXCEPT !.op = "display", !.flag = on],
                 i2clcd_display(StartOn(isnull, ctx, plan), on))

Act_i2clcd_set_cursor ==
    /\ Ready
    /\ \E isnull \in BOOLEAN, plan \in DeadPlans, col \in ColArgs, row \in RowArgs :
          \E junk \in JunkBytes(row) :
             Finish([Idle EXCEPT !.op = "set_cursor", !.col = col, !.row = row],
                    i2clcd_set_cursor(StartOn(isnull, ctx, plan), col, row, junk))

Act_i2clcd_cursor ==
    /\ Ready
    /\ \E isnull \in BOOLEAN, plan \in DeadPlans, visible \in BOOLEAN :
          Finish([Idle EXCEPT !.op = "cursor", !.flag = visible],
                 i2clcd_cursor(StartOn(isnull, ctx, plan), visible))

Act_i2clcd_blink ==
    /\ Ready
    /\ \E isnull \in BOOLEAN, plan \in DeadPlans, blink \in BOOLEAN :
          Finish([Idle EXCEPT !.op = "blink", !.flag = blink],
                 i2clcd_blink(StartOn(isnull, ctx, plan), blink))

Act_i2clcd_putc ==
    /\ Ready
    /\ \E isnull \in BOOLEAN, plan \in DeadPlans, c \in PutcChars :
          Finish([Idle EXCEPT !.op = "putc", !.byte = c],
                 i2clcd_putc(StartOn(isnull, ctx, plan), c))

Act_i2clcd_puts ==
    /\ Ready
    /\ \E isnull \in BOOLEAN, plan \in DeadPlans, str \in Texts, strnull \in BOOLEAN :
          Finish([Idle EXCEPT !.op = "puts", !.nullarg = strnull,
                              !.text = IF strnull THEN <<>> ELSE str],
                 i2clcd_puts(StartOn(isnull, ctx, plan), str, strnull))

PrintfWith(texts) ==
    /\ Ready
    /\ \E isnull \in BOOLEAN, plan \in DeadPlans, rendered \in texts,
          fmtnull \in BOOLEAN :
          Finish([Idle EXCEPT !.op = "printf", !.nullarg = fmtnull,
                              !.text = IF fmtnull THEN <<>> ELSE rendered],
                 i2clcd_printf(StartOn(isnull, ctx, plan), rendered, fmtnull))

Act_i2clcd_printf == PrintfWith(Texts)

Act_i2clcd_set_line ==
    /\ Ready
    /\ \E isnull \in BOOLEAN, plan \in DeadPlans, line \in RowArgs,
          text \in Texts, textnull \in BOOLEAN :
          \E junk \in JunkBytes(line) :
             Finish([Idle EXCEPT !.op = "set_line", !.line = line,
                                 !.nullarg = textnull,
                                 !.text = IF textnull THEN <<>> ELSE text],
                    i2clcd_set_line(StartOn(isnull, ctx, plan), line, text,
                                    textnull, junk))

Act_i2clcd_backlight ==
    /\ Ready
    /\ \E isnull \in BOOLEAN, plan \in DeadPlans, on \in BOOLEAN :
          Finish([Idle EXCEPT !.op = "backlight", !.flag = on],
                 i2clcd_backlight(StartOn(isnull, ctx, plan), on))

Act_i2clcd_backlight_get ==
    /\ Ready
    /\ \E isnull \in BOOLEAN, onnull \in BOOLEAN :
          Finish([Idle EXCEPT !.op = "backlight_get", !.nullarg = onnull],
                 i2clcd_backlight_get(StartOn(isnull, ctx, NoFault), onnull))

Act_i2clcd_create_char ==
    /\ Ready
    /\ \E isnull \in BOOLEAN, plan \in DeadPlans, location \in LocationArgs,
          charmap \in Charmaps, mapnull \in BOOLEAN :
          Finish([Idle EXCEPT !.op = "create_char", !.location = location,
                              !.nullarg = mapnull,
                              !.text = IF mapnull THEN <<>> ELSE charmap],
                 i2clcd_create_char(StartOn(isnull, ctx, plan), location,
                                    charmap, mapnull))

Act_i2clcd_get_size ==
    /\ Ready
    /\ \E isnull \in BOOLEAN, colsnull \in BOOLEAN, rowsnull \in BOOLEAN :
          Finish([Idle EXCEPT !.op = "get_size", !.nullarg = colsnull,
                              !.flag = rowsnull],
                 i2clcd_get_size(StartOn(isnull, ctx, NoFault), colsnull,
                                 rowsnull))

\* the struct a call reads behind the handle: the session's, and after the
\* handle was freed the old contents or zeroes
HandleViews == IF session = "closed" THEN {ctx, ZeroCtx} ELSE {ctx}

\* handle->fd as i2clcd_deinit reads it: after the handle was freed the old
\* descriptor, 0 or -1
FdViews == IF session = "closed" THEN {ctx.fd, 0, 0 - 1} ELSE {ctx.fd}

\* before a session exists the caller's pointer is NULL
Act_i2clcd_deinit ==
    /\ call.op = "idle"
    /\ rel.free < MaxFrees
    /\ \E isnull \in BOOLEAN, fd \in FdViews :
          /\ session = "none" => isnull
          /\ rel' = i2clcd_deinit(isnull, fd, rel)
          /\ session' = IF isnull THEN session ELSE "closed"
          /\ call' = [Idle EXCEPT !.op = "deinit", !.isnull = isnull]
          /\ UNCHANGED <<ctx, log, delay>>

(***************************************************************************)
(* The internal transfer functions of i2clcd_internal.h, called directly   *)
(* on a session opened with I2CLCD_CONFIG_DEFAULT.                         *)
(***************************************************************************)
I2CLCD_CONFIG_DEFAULT ==
    [isnull |-> FALSE, i2c_addr |-> DefaultAddr, size |-> I2CLCD_20X4,
     cols |-> 20, rows |-> 4, backlight |-> TRUE]

Bytes == 0..255

Act_open_default == OpenWith({I2CLCD_CONFIG_DEFAULT})

Act_i2clcd_write_nibble ==
    /\ Ready
    /\ \E plan \in DeadPlans, nibble \in Bytes, rs \in BOOLEAN :
          Finish([Idle EXCEPT !.op = "write_nibble", !.byte = nibble, !.flag = rs],
                 i2clcd_write_nibble(Start(ctx, plan), nibble, rs))

Act_i2clcd_write_byte ==
    /\ Ready
    /\ \E plan \in DeadPlans, byte \in Bytes, rs \in BOOLEAN :
          Finish([Idle EXCEPT !.op = "write_byte", !.byte = byte, !.flag = rs],
                 i2clcd_write_byte(Start(ctx, plan), byte, rs))

NextXfer ==
    \/ Act_open_default
    \/ Act_i2clcd_write_nibble
    \/ Act_i2clcd_write_byte
    \/ Act_i2clcd_backlight
    \/ Return

SpecXfer == Init /\ [][NextXfer]_vars

(***************************************************************************)
(* Calls made with a handle that i2clcd_deinit has freed.  The handle is   *)
(* not NULL, so each function goes on to read the freed struct and to      *)
(* write to the closed descriptor: the struct reads as one of HandleViews, *)
(* and the writes fail (EBADF) or reach whatever file has reused the       *)
(* descriptor number.  What the call stores in the freed struct is not     *)
(* kept: the next call again reads one of HandleViews.                     *)
(***************************************************************************)
ClosedFdPlans == {NoFault, [from |-> 1, to |-> Forever]}

\* the public operation named op, with arguments flag and text where it
\* takes them, position (0, 0), line 0, slot 0 and non-null pointers
PublicOp(op, m, flag, text) ==
    CASE op = "clear" -> i2clcd_clear(m)
      [] op = "clear_line" -> i2clcd_clear_line(m, 0, 0)
      [] op = "home" -> i2clcd_home(m)
      [] op = "display" -> i2clcd_display(m, flag)
      [] op = "set_cursor" -> i2clcd_set_cursor(m, 0, 0, 0)
      [] op = "cursor" -> i2clcd_cursor(m, flag)
      [] op = "blink" -> i2clcd_blink(m, flag)
      [] op = "putc" -> i2clcd_putc(m, text[1])
      [] op = "puts" -> i2clcd_puts(m, text, FALSE)
      [] op = "printf" -> i2clcd_printf(m, text, FALSE)
      [] op = "set_line" -> i2clcd_set_line(m, 0, text, FALSE, 0)
      [] op = "backlight" -> i2clcd_backlight(m, flag)
      [] op = "backlight_get" -> i2clcd_backlight_get(m, FALSE)
      [] op = "create_char" ->
            i2clcd_create_char(m, 0, <<1, 2, 4, 8, 16, 31, 0, 21>>, FALSE)
      [] op = "get_size" -> i2clcd_get_size(m, FALSE, FALSE)

PublicOps ==
    {"clear", "clear_line", "home", "display", "set_cursor", "cursor", "blink",
     "putc", "puts", "printf", "set_line", "backlight", "backlight_get",
     "create_char", "get_size"}

\* the step of a call on a freed handle: m is the finished call
FinishFreed(c, m) ==
    /\ call' = [c EXCEPT !.ret = m.ret, !.out = m.out, !.size = m.size]
    /\ log' = m.log
    /\ UNCHANGED <<session, ctx, rel, delay>>

Act_after_deinit ==
    /\ session = "closed"
    /\ call.op = "idle"
    /\ \E op \in PublicOps, c \in HandleViews, plan \in ClosedFdPlans,
          flag \in BOOLEAN, text \in TextsOfLen(1) :
          FinishFreed([Idle EXCEPT !.op = op, !.flag = flag, !.text = text],
                      PublicOp(op, Start(c, plan), flag, text))

NextTeardown ==
    \/ Act_i2clcd_open
    \/ Act_i2clcd_deinit
    \/ Act_after_deinit
    \/ Return

SpecTeardown == Init /\ [][NextTeardown]_vars

(***************************************************************************)
(* Recovery.  A call on the session failed; the caller takes the error and *)
(* calls i2clcd_clear or i2clcd_set_cursor again, the bus working again.   *)
(* The expander and the controller have seen the bytes of the failed call, *)
(* so the log goes on: call.prior is the length it had when the failed     *)
(* call returned.                                                          *)
(***************************************************************************)
FailCodes == {I2CLCD_ERR_WRITE, I2CLCD_ERR_RANGE, I2CLCD_ERR_INVALID_ARG}

Failed ==
    /\ session = "open"
    /\ call.op \in PublicOps
    /\ ~call.reissued
    /\ call.ret \in FailCodes

\* a call on a bus without faults, after the events of l
Again(c, l) == [Start(c, NoFault) EXCEPT !.log = l]

\* the step of the second call: m is the finished call
FinishAgain(c, m) ==
    /\ call' = [c EXCEPT !.ret = m.ret, !.reissued = TRUE, !.prior = Len(log)]
    /\ ctx' = m.ctx
    /\ log' = m.log
    /\ UNCHANGED <<session, rel, delay>>

Act_reissue_clear ==
    /\ Failed
    /\ FinishAgain([Idle EXCEPT !.op = "clear"], i2clcd_clear(Again(ctx, log)))

Act_reissue_set_cursor ==
    /\ Failed
    /\ \E col \in ColArgs, row \in RowArgs :
          /\ col < ctx.cols
          /\ row < ctx.rows
          /\ \E junk \in JunkBytes(row) :
                FinishAgain([Idle EXCEPT !.op = "set_cursor", !.col = col,
                                         !.row = row],
                            i2clcd_set_cursor(Again(ctx, log), col, row, junk))

NextRecover ==
    \/ Act_i2clcd_open
    \/ Act_i2clcd_clear
    \/ Act_i2clcd_set_cursor
    \/ Act_i2clcd_putc
    \/ Act_i2clcd_set_line
    \/ Act_i2clcd_create_char
    \/ Act_reissue_clear
    \/ Act_reissue_set_cursor
    \/ Return

SpecRecover == Init /\ [][NextRecover]_vars

(***************************************************************************)
(* lcdctl.  main parses the options into a config that starts as           *)
(* I2CLCD_CONFIG_DEFAULT, calls i2clcd_init for the command "init" and     *)
(* i2clcd_open for every other command, runs the command and calls         *)
(* i2clcd_deinit.  call.sizeopt is the argument of -s, NoSizeOpt without   *)
(* the option.                                                             *)
(***************************************************************************)
NoSizeOpt == ""

SizeOpts == {NoSizeOpt, "16x2", "1602", "20x4", "2004", "40x2"}

parse_size(str) ==
    IF str \in {"16x2", "1602"} THEN [ret |-> 0, size |-> I2CLCD_16X2]
    ELSE IF str \in {"20x4", "2004"} THEN [ret |-> 0, size |-> I2CLCD_20X4]
    ELSE [ret |-> 0 - 1, size |-> I2CLCD_CONFIG_DEFAULT.size]

\* config after the option loop of main
lcdctl_config(sizeopt) ==
    IF sizeopt = NoSizeOpt THEN I2CLCD_CONFIG_DEFAULT
    ELSE [I2CLCD_CONFIG_DEFAULT EXCEPT !.size = parse_size(sizeopt).size]

\* "Initialize or open LCD based on command"
lcdctl_open(cmd, config, env, plan) ==
    IF cmd = "init" THEN i2clcd_init(config, env, plan)
    ELSE Fail(i2clcd_open(config, env).ctx, i2clcd_open(config, env).err)

\* the step of main up to the check of err: m is the finished call
LcdctlOpened(c, m) ==
    /\ session' = IF m.ret = I2CLCD_OK THEN "open" ELSE "none"
    /\ ctx' = m.ctx
    /\ call' = [c EXCEPT !.ret = m.ret]
    /\ log' = m.log
    /\ UNCHANGED <<rel, delay>>

LcdctlCommands == {"init", "clear", "cursor", "backlight", "home"}

Act_lcdctl_main ==
    /\ session = "none"
    /\ call.op = "idle"
    /\ \E sizeopt \in SizeOpts, cmd \in LcdctlCommands, env \in Envs,
          plan \in DeadPlans :
          IF sizeopt # NoSizeOpt /\ parse_size(sizeopt).ret # 0
          THEN /\ call' = [Idle EXCEPT !.op = "lcdctl", !.sizeopt = sizeopt,
                                       !.ret = 1]
               /\ UNCHANGED <<session, ctx, log, rel, delay>>
          ELSE LcdctlOpened(
                   [Idle EXCEPT !.op = IF cmd = "init" THEN "init" ELSE "open",
                                !.sizeopt = sizeopt,
                                !.config = lcdctl_config(sizeopt).size,
                                !.flag = lcdctl_config(sizeopt).backlight],
                   lcdctl_open(cmd, lcdctl_config(sizeopt), env, plan))

NextLcdctl ==
    \/ Act_lcdctl_main
    \/ Act_i2clcd_clear
    \/ Act_i2clcd_home
    \/ Act_i2clcd_set_cursor
    \/ Act_i2clcd_backlight
    \/ Act_i2clcd_deinit
    \/ Return

SpecLcdctl == Init /\ [][NextLcdctl]_vars

(***************************************************************************)
(* i2clcd_printf with texts around the size of its buffer: the format      *)
(* renders to RenderedLens characters, none of them NUL.                   *)
(***************************************************************************)
RenderedLens == {0, 1} \cup ((PrintfBufSize - 2)..MaxRendered)

Rendered(len) == [i \in 1..len |-> 65 + (i % 26)]

RenderedTexts == {Rendered(len) : len \in RenderedLens}

Act_printf_rendered == PrintfWith(RenderedTexts)

NextPrintf ==
    \/ Act_i2clcd_open
    \/ Act_printf_rendered
    \/ Act_i2clcd_puts
    \/ Return

SpecPrintf == Init /\ [][NextPrintf]_vars

(***************************************************************************)
(* i2clcd_delay_us, step by step: the timespec built from us, then         *)
(* nanosleep(&ts, &ts) called again as long as it returns -1 with errno    *)
(* EINTR.  An interrupted nanosleep has slept part of the time and writes  *)
(* the rest to ts.  Times are in nanoseconds; a call is interrupted at     *)
(* most MaxInterrupts times.                                               *)
(***************************************************************************)
UsPerSec == 1000000
NsPerUs == 1000
NsPerSec == UsPerSec * NsPerUs

DelayArgs ==
    {0, 1, HD44780_DELAY_CMD_US, HD44780_DELAY_CLEAR_US, UsPerSec - 1,
     UsPerSec, UsPerSec + 1, MaxDelayUs}

Nanos(ts) == ts.tv_sec * NsPerSec + ts.tv_nsec

Timespec(ns) == [tv_sec |-> ns \div NsPerSec, tv_nsec |-> ns % NsPerSec]

\* ts as i2clcd_delay_us fills it
delay_timespec(us) ==
    [tv_sec |-> us \div UsPerSec, tv_nsec |-> (us % UsPerSec) * NsPerUs]

\* the times after which a sleep of ns nanoseconds may be interrupted
InterruptPoints(ns) == {t \in {0, 1, ns \div 2, ns - 1} : 0 <= t /\ t < ns}

\* the outcomes of nanosleep(&req, &rem): the whole time slept, or part of
\* it when a signal arrives, the rest then written to rem
nanosleep(req, signals) ==
    {[ret |-> 0, errno |-> "none", slept |-> Nanos(req), rem |-> req]} \cup
    (IF signals
     THEN {[ret |-> 0 - 1, errno |-> "EINTR", slept |-> t,
            rem |-> Timespec(Nanos(req) - t)] : t \in InterruptPoints(Nanos(req))}
     ELSE {})

\* the condition of the while loop
delay_retries(r) == r.ret = 0 - 1 /\ r.errno = "EINTR"

Act_i2clcd_delay_us ==
    /\ delay.pc = "idle"
    /\ \E us \in DelayArgs :
          delay' = [pc |-> "sleeping", us |-> us, ts |-> delay_timespec(us),
                    slept |-> 0, interrupts |-> 0]
    /\ UNCHANGED <<session, ctx, call, log, rel>>

\* one call of nanosleep(&ts, &ts) and the test of the loop
Act_nanosleep ==
    /\ delay.pc = "sleeping"
    /\ \E r \in nanosleep(delay.ts, delay.interrupts < MaxInterrupts) :
          delay' = [delay EXCEPT
                       !.slept = @ + r.slept,
                       !.ts = r.rem,
                       !.interrupts = @ + (IF r.ret = 0 THEN 0 ELSE 1),
                       !.pc = IF delay_retries(r) THEN "sleeping" ELSE "returned"]
    /\ UNCHANGED <<session, ctx, call, log, rel>>

\* the caller goes on
Act_delay_return ==
    /\ delay.pc = "returned"
    /\ delay' = NoDelay
    /\ UNCHANGED <<session, ctx, call, log, rel>>

NextDelay ==
    \/ Act_i2clcd_delay_us
    \/ Act_nanosleep
    \/ Act_delay_return

\* a call of nanosleep returns
SpecDelay == Init /\ [][NextDelay]_vars /\ WF_vars(Act_nanosleep)

Next ==
    \/ Act_i2clcd_open
    \/ Act_i2clcd_init
    \/ Act_i2clcd_clear
    \/ Act_i2clcd_clear_line
    \/ Act_i2clcd_home
    \/ Act_i2clcd_display
    \/ Act_i2clcd_set_cursor
    \/ Act_i2clcd_cursor
    \/ Act_i2clcd_blink
    \/ Act_i2clcd_putc
    \/ Act_i2clcd_puts
    \/ Act_i2clcd_printf
    \/ Act_i2clcd_set_line
    \/ Act_i2clcd_backlight
    \/ Act_i2clcd_backlight_get
    \/ Act_i2clcd_create_char
    \/ Act_i2clcd_get_size
    \/ Act_i2clcd_deinit
    \/ Return

Spec == Init /\ [][Next]_vars

(***************************************************************************)
(* Reading the log.                                                        *)
(***************************************************************************)
IsWrite(e) == e[1] = "w"
IsAttempt(e) == e[1] = "w" \/ e[1] = "f"
IsFailure(e) == e[1] = "f"

Values(events) == [i \in 1..Len(events) |-> events[i][2]]

\* the bytes that reached the expander, in order
BusBytes(l) == Values(SelectSeq(l, IsWrite))

\* the bytes of every write(2) attempted, in order
AttemptBytes(l) == Values(SelectSeq(l, IsAttempt))

NoFailure(l) == SelectSeq(l, IsFailure) = <<>>

Prefix(q, k) == SubSeq(q, 1, IF k < Len(q) THEN k ELSE Len(q))

\* the expander words of one nibble transfer: enable high, then enable low
Pair(nib, rs, bl) ==
    LET w == 16 * nib + (IF rs THEN 1 ELSE 0) + (IF bl THEN 8 ELSE 0)
    IN  <<w + 4, w>>

\* the expander words of one byte: high nibble pair, low nibble pair
Wire(byte, rs, bl) == Pair(byte \div 16, rs, bl) \o Pair(byte % 16, rs, bl)

\* a command byte and a data byte as the controller is to receive them
Cmd(b) == [rs |-> FALSE, byte |-> b]
Data(b) == [rs |-> TRUE, byte |-> b]

\* the expander words of a sequence of command and data bytes
Encode(items, bl) ==
    [k \in 1..(4 * Len(items)) |->
        LET it == items[((k - 1) \div 4) + 1]
        IN  Wire(it.byte, it.rs, bl)[((k - 1) % 4) + 1]]

(***************************************************************************)
(* The HD44780 as the comments of i2clcd_init and i2clcd_write_nibble      *)
(* describe it: it latches the data pins on the falling edge of enable; in *)
(* 8-bit mode each latch is an instruction, in 4-bit mode two latches are. *)
(* A function set instruction selects the interface width.                 *)
(***************************************************************************)
CtlStartStates ==
    {[mode |-> md, hi |-> h, en |-> e, done |-> <<>>] :
        md \in {"8bit", "4hi", "4lo"}, h \in 0..15, e \in 0..1}

\* the mode after instruction byte ins
CtlMode(mode, rs, ins) ==
    IF rs = 0 /\ ins \div 32 = 1
    THEN (IF Bit(ins, 4) = 1 THEN "8bit" ELSE "4hi")
    ELSE IF mode = "8bit" THEN "8bit" ELSE "4hi"

\* the controller after the expander pins change to bus byte b
CtlStep(s, b) ==
    LET en == Bit(b, 2)
        rs == b % 2
        nib == b \div 16
    IN  IF ~(s.en = 1 /\ en = 0) THEN [s EXCEPT !.en = en]
        ELSE IF s.mode = "8bit"
        THEN [s EXCEPT !.en = en, !.mode = CtlMode("8bit", rs, 16 * nib),
                       !.done = Append(@, <<rs, 16 * nib, 8>>)]
        ELSE IF s.mode = "4hi"
        THEN [s EXCEPT !.en = en, !.mode = "4lo", !.hi = nib]
        ELSE [s EXCEPT !.en = en, !.mode = CtlMode("4lo", rs, 16 * s.hi + nib),
                       !.done = Append(@, <<rs, 16 * s.hi + nib, 4>>)]

\* the controller after bus bytes q[lo + 1] .. q[hi]. The range is halved and
\* the state after the first half is bound by a quantifier, so that it is
\* computed before the second half starts and a long log does not nest deeply.
RECURSIVE CtlRunOver(_, _, _, _)
CtlRunOver(s, q, lo, hi) ==
    IF lo >= hi THEN s
    ELSE IF hi = lo + 1 THEN CtlStep(s, q[hi])
    ELSE CHOOSE t \in {CtlRunOver(x, q, (lo + hi) \div 2, hi) :
                          x \in {CtlRunOver(s, q, lo, (lo + hi) \div 2)}} : TRUE

CtlRun(s, q) == CtlRunOver(s, q, 0, Len(q))

(***************************************************************************)
(* Claims.                                                                 *)
(***************************************************************************)
InitDone == call.op = "init" /\ call.ret = I2CLCD_OK

\* the 25 bytes of a full initialization with backlight bit bl
InitTrace(bl) ==
    <<IF bl THEN 8 ELSE 0>>
    \o Pair(3, FALSE, bl) \o Pair(3, FALSE, bl) \o Pair(3, FALSE, bl)
    \o Pair(2, FALSE, bl)
    \o Pair(2, FALSE, bl) \o Pair(8, FALSE, bl)
    \o Pair(0, FALSE, bl) \o Pair(8, FALSE, bl)
    \o Pair(0, FALSE, bl) \o Pair(6, FALSE, bl)
    \o Pair(0, FALSE, bl) \o Pair(12, FALSE, bl)

\* C1: on a bus where every write succeeds, i2clcd_init writes exactly the
\* backlight word, the 0x30 nibble three times, the 0x20 nibble, then the
\* commands 0x28, 0x08, 0x06, 0x0C, high nibble first: 25 bytes, nothing else.
C1_InitTrace ==
    (InitDone /\ NoFailure(log)) =>
        /\ BusBytes(log) = InitTrace(ctx.backlight)
        /\ Len(AttemptBytes(log)) = 25

C1_Witness ==
    /\ InitDone
    /\ NoFailure(log)
    /\ ctx.backlight
    /\ Len(BusBytes(log)) = 25

\* C2: from every starting state of the controller (8-bit, 4-bit expecting a
\* high nibble, 4-bit expecting a low nibble), after the raw nibbles 0x30,
\* 0x30, 0x30, 0x20 of a fault-free i2clcd_init the controller is in 4-bit
\* mode expecting a high nibble, and it then executes 0x28, 0x08, 0x06, 0x0C.
C2_InitConverges ==
    (InitDone /\ NoFailure(log)) =>
        \A s \in CtlStartStates :
            LET mid == CtlRun(s, Prefix(BusBytes(log), 9))
                fin == CtlRun(mid, SubSeq(BusBytes(log), 10, Len(BusBytes(log))))
            IN  /\ mid.mode = "4hi"
                /\ fin.mode = "4hi"
                /\ SubSeq(fin.done, Len(mid.done) + 1, Len(fin.done))
                     = <<<<0, 40, 4>>, <<0, 8, 4>>, <<0, 6, 4>>, <<0, 12, 4>>>>

C2_Witness ==
    /\ InitDone
    /\ NoFailure(log)
    /\ \E s \in CtlStartStates :
          /\ s.mode = "4lo"
          /\ s.hi = 2
          /\ CtlRun(s, BusBytes(log)).mode = "4hi"
          /\ Len(CtlRun(s, BusBytes(log)).done) = 7

\* C3: a successful i2clcd_write_nibble writes exactly two bytes: the word
\* with bits 4-7 the nibble, bit 0 rs, bit 3 the backlight, bit 1 clear and
\* bit 2 (enable) set, then the same word with bit 2 clear.
C3_NibblePair ==
    (call.op = "write_nibble" /\ call.ret = 0) =>
        LET w == 16 * (call.byte \div 16) + (IF call.flag THEN 1 ELSE 0)
                 + (IF ctx.backlight THEN 8 ELSE 0)
        IN  /\ AttemptBytes(log) = <<w + 4, w>>
            /\ BusBytes(log) = <<w + 4, w>>
            /\ Bit(w, 1) = 0 /\ Bit(w, 2) = 0

C3_Witness ==
    /\ call.op = "write_nibble"
    /\ call.ret = 0
    /\ call.byte = 165
    /\ call.flag
    /\ ~ctx.backlight
    /\ BusBytes(log) = <<165, 161>>

\* C4: i2clcd_write_byte sends the nibble b & 0xF0 first and (b << 4) & 0xF0
\* second; when the first nibble transfer fails it returns failure and the
\* second nibble is not sent.  The writes attempted are the four words of the
\* byte up to the first one that fails.
C4_HighNibbleFirst ==
    (call.op = "write_byte") =>
        LET all == Wire(call.byte, call.flag, ctx.backlight)
            n == Len(AttemptBytes(log))
        IN  /\ AttemptBytes(log) = Prefix(all, n)
            /\ BusBytes(log) = Prefix(all, Len(BusBytes(log)))
            /\ (NoFailure(log) <=> (n = 4 /\ call.ret = 0))
            /\ (~NoFailure(log) =>
                   /\ call.ret < 0
                   /\ Len(BusBytes(log)) = n - 1)

C4_Witness ==
    /\ call.op = "write_byte"
    /\ call.byte = 30
    /\ call.ret < 0
    /\ ~call.flag
    /\ ctx.backlight
    /\ AttemptBytes(log) = <<28, 24>>
    /\ BusBytes(log) = <<28>>

\* C5: for every session and every (column, row) with row < rows and
\* column < columns, set-cursor sends exactly one command byte, equal to
\* 0x80 + row_base_address[row] + column, the sum not wrapping around 8 bits
\* and not reaching the command bit.  (Stated for the rows the 4-slot table
\* has an entry for.)
C5_CursorAddress ==
    (/\ call.op = "set_cursor" /\ ~call.isnull
     /\ call.row < ctx.rows /\ call.col < ctx.cols /\ call.row < 4
     /\ NoFailure(log)) =>
        LET address == ctx.line_addr[call.row + 1] + call.col
        IN  /\ call.ret = I2CLCD_OK
            /\ address <= 127
            /\ BusBytes(log) = Encode(<<Cmd(128 + address)>>, ctx.backlight)

\* C6: a row >= rows makes set-cursor and clear-line return out-of-range, and
\* a column >= columns makes set-cursor return it, with no bus write attempted
\* and the session unchanged.
C6_OutOfRange ==
    [][(/\ ~call'.isnull
        /\ \/ call'.op = "set_cursor"
              /\ (call'.row >= ctx.rows \/ call'.col >= ctx.cols)
           \/ call'.op = "clear_line" /\ call'.line >= ctx.rows) =>
           /\ call'.ret = I2CLCD_ERR_RANGE
           /\ log' = <<>>
           /\ ctx' = ctx
           /\ session' = session]_vars

C6_Witness ==
    /\ call.op = "set_cursor"
    /\ ~call.isnull
    /\ call.row < ctx.rows
    /\ call.col = ctx.cols
    /\ ctx.cols = 16
    /\ call.ret = I2CLCD_ERR_RANGE
    /\ log = <<>>

\* the characters set-line is to put on a line of n columns
PaddedLine(text, n) ==
    [i \in 1..n |-> Data(IF i <= Len(text) THEN text[i] ELSE 32)]

\* C7: for every text, shorter than, as long as or longer than the line, and
\* every line < rows, set-line on a working bus returns success and sends one
\* set-address command for (0, line), then exactly `columns` data bytes: the
\* text's characters, then spaces.  (A line past the 4-slot table carries the
\* address byte found there.)
C7_SetLinePads ==
    (/\ call.op = "set_line" /\ ~call.isnull /\ ~call.nullarg
     /\ call.line < ctx.rows
     /\ NoFailure(log)) =>
        LET bus == BusBytes(log)
            first == 16 * (bus[2] \div 16) + (bus[4] \div 16)
        IN  /\ call.ret = I2CLCD_OK
            /\ Len(bus) = 4 * (1 + ctx.cols)
            /\ first >= 128
            /\ call.line < 4 => first = 128 + ctx.line_addr[call.line + 1]
            /\ bus = Encode(<<Cmd(first)>> \o PaddedLine(call.text, ctx.cols),
                            ctx.backlight)

C7_Witness ==
    /\ call.op = "set_line"
    /\ ~call.isnull
    /\ call.ret = I2CLCD_OK
    /\ call.line = 1
    /\ ctx.cols = 2
    /\ call.text = <<65, 126, 65>>
    /\ BusBytes(log) =
         Encode(<<Cmd(192), Data(65), Data(126)>>, ctx.backlight)

ToggleBit(op) ==
    CASE op = "display" -> 2
      [] op = "cursor" -> 1
      [] op = "blink" -> 0

\* C8: a display, cursor or blink toggle changes only its own bit of
\* display_ctrl (display 0x04, cursor 0x02, blink 0x01), sends the command
\* 0x08 or-ed with all three current bits, and the flags never hold a bit
\* outside 0x07.
C8_TogglesIndependent ==
    /\ [](/\ ctx.display_ctrl \in 0..7
          /\ (call.op \in {"display", "cursor", "blink"} /\ ~call.isnull) =>
                LET all == Wire(8 + ctx.display_ctrl, FALSE, ctx.backlight)
                IN  /\ AttemptBytes(log) = Prefix(all, Len(AttemptBytes(log)))
                    /\ NoFailure(log) =>
                          (call.ret = I2CLCD_OK /\ BusBytes(log) = all))
    /\ [][(call'.op \in {"display", "cursor", "blink"} /\ ~call'.isnull) =>
             /\ \A i \in 0..2 :
                   Bit(ctx'.display_ctrl, i) =
                      IF i = ToggleBit(call'.op)
                      THEN (IF call'.flag THEN 1 ELSE 0)
                      ELSE Bit(ctx.display_ctrl, i)
             /\ ctx' = [ctx EXCEPT !.display_ctrl = ctx'.display_ctrl]]_vars

C8_Witness ==
    /\ call.op = "cursor"
    /\ ~call.isnull
    /\ call.flag
    /\ call.ret = I2CLCD_OK
    /\ ctx.display_ctrl = 7
    /\ BusBytes(log) = Wire(15, FALSE, ctx.backlight)

\* C9 as claimed: create-custom-character with slot > 7 returns out-of-range
\* and issues no bus write, whatever the pattern.
C9_SlotRangeAnyPattern ==
    (call.op = "create_char" /\ ~call.isnull /\ call.location > 7) =>
        (call.ret = I2CLCD_ERR_RANGE /\ log = <<>>)

\* C9: create-custom-character with a non-null pattern and slot > 7 returns
\* out-of-range and issues no bus write; with slot in 0..7 and a working bus
\* it sends the CGRAM address command 0x40 | slot * 8, the 8 pattern bytes in
\* order as data, the DDRAM address command 0x80, and nothing else.
C9_CreateChar ==
    (call.op = "create_char" /\ ~call.isnull /\ ~call.nullarg) =>
        /\ call.location > 7 => (call.ret = I2CLCD_ERR_RANGE /\ log = <<>>)
        /\ (call.location <= 7 /\ NoFailure(log)) =>
              /\ call.ret = I2CLCD_OK
              /\ Len(AttemptBytes(log)) = 40
              /\ BusBytes(log) =
                    Encode(<<Cmd(64 + 8 * call.location)>>
                           \o [i \in 1..8 |-> Data(call.text[i])]
                           \o <<Cmd(128)>>, ctx.backlight)

C9_Witness ==
    /\ call.op = "create_char"
    /\ ~call.isnull
    /\ call.location = 7
    /\ call.text = <<1, 2, 4, 8, 16, 31, 0, 21>>
    /\ call.ret = I2CLCD_OK
    /\ Len(BusBytes(log)) = 40

\* C10: backlight-set(v) records v and attempts exactly one bus write, of the
\* word with only the backlight bit, equal to v; backlight-get writes nothing,
\* changes nothing and returns the recorded flag, which only backlight-set
\* changes after the session was created with the configured value.
C10_Backlight ==
    [][/\ (call'.op = "backlight" /\ ~call'.isnull) =>
             /\ ctx' = [ctx EXCEPT !.backlight = call'.flag]
             /\ AttemptBytes(log') = <<IF call'.flag THEN 8 ELSE 0>>
             /\ Len(log') = 1
       /\ (call'.op = "backlight_get" /\ ~call'.isnull) =>
             /\ log' = <<>>
             /\ ctx' = ctx
             /\ session' = session
             /\ ~call'.nullarg =>
                   (call'.ret = I2CLCD_OK /\ call'.out = ctx.backlight)
       /\ (call'.op \in {"open", "init"} /\ call'.ret = I2CLCD_OK) =>
             ctx'.backlight = call'.flag
       /\ (session = "open" /\ ~(call'.op = "backlight" /\ ~call'.isnull)) =>
             ctx'.backlight = ctx.backlight]_vars

C10_Witness ==
    /\ call.op = "backlight"
    /\ ~call.isnull
    /\ ~call.flag
    /\ call.ret = I2CLCD_OK
    /\ ~ctx.backlight
    /\ BusBytes(log) = <<0>>


\* C11 as claimed: when a bus write fails during i2clcd_init, the call does not
\* report success but returns write-failed.
C11_InitReportsWriteFailure ==
    (call.op = "init" /\ ~NoFailure(log)) => call.ret = I2CLCD_ERR_WRITE

\* the operations of a session that write to the bus, initialization aside
WritingOps ==
    {"clear", "home", "clear_line", "display", "cursor", "blink", "set_cursor",
     "putc", "puts", "set_line", "backlight", "create_char"}

\* C12: when a bus write of clear, home, clear-line, display, cursor, blink,
\* set-cursor, put-character, put-string, set-line, backlight-set or
\* create-custom-character fails, the call returns write-failed, the failed
\* write is the last thing it did on the bus, and it was attempted once.
C12_WriteFailureAborts ==
    (call.op \in WritingOps /\ ~NoFailure(log)) =>
        /\ call.ret = I2CLCD_ERR_WRITE
        /\ Len(SelectSeq(log, IsFailure)) = 1
        /\ IsFailure(log[Len(log)])

C12_Witness ==
    /\ call.op = "set_line"
    /\ call.ret = I2CLCD_ERR_WRITE
    /\ Len(BusBytes(log)) = 4
    /\ Len(AttemptBytes(log)) = 5
    /\ IsFailure(log[Len(log)])

\* C13 as claimed: a display, cursor or blink toggle that fails because its
\* bus write failed leaves display_ctrl as it was before the call.
C13_FailedToggleKeepsFlags ==
    [][(call'.op \in {"display", "cursor", "blink"}
        /\ call'.ret = I2CLCD_ERR_WRITE) =>
           ctx'.display_ctrl = ctx.display_ctrl]_vars

\* C17 as claimed: every session that i2clcd_open or i2clcd_init returned has
\* columns > 0, rows > 0 and rows <= 4.
C17_Dimensions ==
    session = "open" => (ctx.cols > 0 /\ ctx.rows > 0 /\ ctx.rows <= 4)

\* C20 as claimed: in a session of at least 3 rows the base address of row 2
\* is that of row 0 plus the columns, and with 4 rows the base address of
\* row 3 is that of row 1 plus the columns.
C20_RowBases ==
    (session = "open" /\ ctx.rows >= 3) =>
        /\ ctx.line_addr[3] = ctx.line_addr[1] + ctx.cols
        /\ ctx.rows >= 4 => ctx.line_addr[4] = ctx.line_addr[2] + ctx.cols


\* C16: every public operation that takes a session returns not-initialized
\* when the session is null, whatever its other arguments are, and does
\* nothing on the bus.
C16_NullSession ==
    (call.op \in PublicOps /\ call.isnull) =>
        (call.ret = I2CLCD_ERR_NOT_INIT /\ log = <<>>)

C16_Witness ==
    /\ call.op = "create_char"
    /\ call.isnull
    /\ call.nullarg
    /\ call.location = 255
    /\ call.ret = I2CLCD_ERR_NOT_INIT
    /\ log = <<>>


\* C14 as claimed: over the life of a session i2clcd_deinit closes the bus
\* handle and frees the session at most once, however often it is called.
C14_ReleasedOnce == rel.close <= 1 /\ rel.free <= 1


\* C15 as claimed: a public operation called on a session that was torn down
\* returns not-initialized and does nothing on the bus.
C15_ClosedFailsFast ==
    (session = "closed" /\ call.op \in PublicOps) =>
        (call.ret = I2CLCD_ERR_NOT_INIT /\ log = <<>>)


(***************************************************************************)
(* Recovery claims.  The controller is in 4-bit mode and waits for a high  *)
(* nibble when the failed call starts.                                     *)
(***************************************************************************)
CtlAligned == [mode |-> "4hi", hi |-> 0, en |-> 0, done |-> <<>>]

\* the events of the failed call and those of the call after it
FailedPart == SubSeq(log, 1, call.prior)
ReissuedPart == SubSeq(log, call.prior + 1, Len(log))

\* the second call is i2clcd_clear, or i2clcd_set_cursor on a row that has a
\* base address
Reissued == call.reissued /\ (call.op = "set_cursor" => call.row < 4)

ReissuedCommand ==
    IF call.op = "clear" THEN HD44780_CMD_CLEAR
    ELSE BitOr(HD44780_CMD_SET_DDRAM,
               U8(ctx.line_addr[call.row + 1] + call.col))

\* C18 as claimed: after a failed call, a clear or set-cursor issued again on
\* a working bus makes the controller execute exactly that one command: its
\* two nibbles are decoded as one instruction byte.
C18_ReissueExecuted ==
    Reissued =>
        LET before == CtlRun(CtlAligned, BusBytes(FailedPart))
        IN  CtlRun(before, BusBytes(ReissuedPart)).done =
                Append(before.done, <<0, ReissuedCommand, 4>>)

\* C19: a call that returns write-failed, out-of-range or invalid-argument
\* leaves the session open with the same descriptor, dimensions and row
\* table, nothing closed or freed; a clear or set-cursor called after it on
\* a working bus returns success and puts its own four bytes on the bus.
C19_SessionSurvives ==
    /\ [](Reissued =>
            /\ call.ret = I2CLCD_OK
            /\ NoFailure(ReissuedPart)
            /\ BusBytes(ReissuedPart) =
                   Wire(ReissuedCommand, FALSE, ctx.backlight))
    /\ [][(call'.op \in PublicOps /\ call'.ret \in FailCodes) =>
            /\ session' = "open"
            /\ session = "open"
            /\ ctx'.fd = ctx.fd
            /\ ctx'.cols = ctx.cols
            /\ ctx'.rows = ctx.rows
            /\ ctx'.line_addr = ctx.line_addr
            /\ rel' = rel]_vars

\* i2clcd_set_line failed at the write that lowers enable on the low nibble
\* of its second byte; i2clcd_clear after it succeeds
C19_Witness ==
    /\ call.reissued
    /\ call.op = "clear"
    /\ call.ret = I2CLCD_OK
    /\ Len(AttemptBytes(FailedPart)) = 4
    /\ Len(BusBytes(FailedPart)) = 3
    /\ BusBytes(ReissuedPart) = Wire(HD44780_CMD_CLEAR, FALSE, ctx.backlight)


\* the last instruction with command bit cmd among the executed list done,
\* <<>> when there is none
RECURSIVE LastCommand(_, _, _)
LastCommand(done, cmd, i) ==
    IF i = 0 THEN <<>>
    ELSE IF done[i][1] = 0 /\ done[i][2] >= cmd /\ done[i][2] < 2 * cmd
         THEN done[i]
         ELSE LastCommand(done, cmd, i - 1)

\* the display control and entry mode registers of the controller after the
\* instructions in done, as the shadow fields would record them
CtlShadow(done) ==
    [display_ctrl |->
        LET d == LastCommand(done, HD44780_CMD_DISPLAY_CTRL, Len(done))
        IN  IF d = <<>> THEN 0 - 1 ELSE d[2] - HD44780_CMD_DISPLAY_CTRL,
     entry_mode |->
        LET e == LastCommand(done, HD44780_CMD_ENTRY_MODE, Len(done))
        IN  IF e = <<>> THEN 0 - 1 ELSE e[2] - HD44780_CMD_ENTRY_MODE]

\* C21: i2clcd_open writes nothing to the bus and records display_ctrl =
\* display on and entry_mode = increment; a successful i2clcd_init leaves the
\* same two shadow values, and after its writes the controller's display
\* control and entry mode registers hold exactly these values.
C21_OpenShadowMatchesInit ==
    /\ (call.op = "open" /\ call.ret = I2CLCD_OK) =>
          /\ log = <<>>
          /\ ctx.display_ctrl = HD44780_DISPLAY_ON
          /\ ctx.entry_mode = HD44780_ENTRY_INC
    /\ InitDone =>
          /\ ctx.display_ctrl = HD44780_DISPLAY_ON
          /\ ctx.entry_mode = HD44780_ENTRY_INC
    /\ (InitDone /\ NoFailure(log)) =>
          \A s \in CtlStartStates :
             CtlShadow(CtlRun(s, BusBytes(log)).done) =
                [display_ctrl |-> HD44780_DISPLAY_ON,
                 entry_mode |-> HD44780_ENTRY_INC]

C21_Witness ==
    /\ call.op = "open"
    /\ call.ret = I2CLCD_OK
    /\ session = "open"
    /\ call.config = I2CLCD_20X4
    /\ ctx.display_ctrl = HD44780_DISPLAY_ON
    /\ log = <<>>


\* C22 as claimed: the session that lcdctl creates when it is run without
\* -s/--size has 16 columns and 2 rows.
C22_LcdctlDefaultSize ==
    (call.op \in {"open", "init"} /\ call.sizeopt = NoSizeOpt
        /\ call.ret = I2CLCD_OK) =>
        (ctx.cols = 16 /\ ctx.rows = 2)


\* the first PrintfBufSize - 1 characters of text, all of it when shorter
Truncated(text) == Prefix(text, PrintfBufSize - 1)

\* the data bytes of text as items for Encode
DataItems(text) == [i \in 1..Len(text) |-> Data(text[i])]

\* C23: i2clcd_printf of a format that renders to L characters does what
\* i2clcd_puts of the first min(L, 127) of them does on the same bus: the
\* same result, the same log, the same session; on a bus without failures it
\* returns I2CLCD_OK after the data bytes of exactly those characters.
C23_PrintfIsPutsOfTruncated ==
    [][(call'.op = "printf" /\ ~call'.isnull /\ ~call'.nullarg) =>
          /\ \E plan \in DeadPlans :
                LET p == i2clcd_puts(Start(ctx, plan), Truncated(call'.text), FALSE)
                IN  /\ call'.ret = p.ret
                    /\ log' = p.log
                    /\ ctx' = p.ctx
          /\ NoFailure(log') =>
                /\ call'.ret = I2CLCD_OK
                /\ BusBytes(log') =
                      Encode(DataItems(Truncated(call'.text)), ctx.backlight)]_vars

\* a text of 129 characters went out as 127 data bytes
C23_Witness ==
    /\ call.op = "printf"
    /\ Len(call.text) = PrintfBufSize + 1
    /\ call.ret = I2CLCD_OK
    /\ Len(BusBytes(log)) = 4 * (PrintfBufSize - 1)
    /\ NoFailure(log)


\* what the controller executes when it receives the characters of text as
\* data bytes
DataDone(text) == [i \in 1..Len(text) |-> <<1, text[i], 4>>]

\* the text of the call: the string of i2clcd_puts, the one character of
\* i2clcd_putc
TextPut == IF call.op = "putc" THEN <<U8(call.byte)>> ELSE call.text

\* C24: on a bus without failures i2clcd_puts of n characters and
\* i2clcd_putc of one put on the bus the nibble transfers of exactly these
\* characters, register select set, in string order, and nothing else: the
\* controller receives n data bytes and no instruction.
C24_TextIsDataOnly ==
    (call.op \in {"puts", "putc"} /\ ~call.isnull /\ ~call.nullarg
        /\ NoFailure(log)) =>
        /\ call.ret = I2CLCD_OK
        /\ BusBytes(log) = Encode(DataItems(TextPut), ctx.backlight)
        /\ Len(AttemptBytes(log)) = 4 * Len(TextPut)
        /\ CtlRun(CtlAligned, BusBytes(log)).done = DataDone(TextPut)

C24_Witness ==
    /\ call.op = "puts"
    /\ call.text = <<65, 126, 65>>
    /\ call.ret = I2CLCD_OK
    /\ NoFailure(log)
    /\ CtlRun(CtlAligned, BusBytes(log)).done =
          <<<<1, 65, 4>>, <<1, 126, 4>>, <<1, 65, 4>>>>


\* the bytes of every write(2) the call attempted
Attempted == AttemptBytes(log)

\* C25: every byte that a call on the session hands to write(2), in
\* i2clcd_init, in a nibble transfer or in a backlight refresh, has the
\* read/write bit (bit 1) clear.
C25_ReadWriteLow ==
    \A i \in 1..Len(Attempted) : BitAnd(Attempted[i], PCF8574_PIN_RW) = 0

\* all other pins high: data byte 0xFF with the backlight on
C25_Witness ==
    /\ call.op = "putc"
    /\ call.byte = 255
    /\ ctx.backlight
    /\ BusBytes(log) = <<253, 249, 253, 249>>

\* C26: every byte that a call hands to write(2) has in bit 3 the backlight
\* flag of the session, which is the flag i2clcd_backlight has just recorded
\* when the call is i2clcd_backlight; and no call but i2clcd_backlight
\* changes the flag of an open session.
C26_BacklightPiggybacked ==
    /\ [](\A i \in 1..Len(Attempted) :
             Bit(Attempted[i], 3) = (IF ctx.backlight THEN 1 ELSE 0))
    /\ [][(session = "open" /\ call'.op # "backlight") =>
             ctx'.backlight = ctx.backlight]_vars

\* a set-cursor on a session whose backlight is off
C26_Witness ==
    /\ call.op = "set_cursor"
    /\ call.ret = I2CLCD_OK
    /\ ~ctx.backlight
    /\ call.row = 1
    /\ call.col = 15
    /\ BusBytes(log) = Wire(128 + 64 + 15, FALSE, FALSE)


\* the microseconds slept in the events l[i] .. l[j]
RECURSIVE SleptIn(_, _, _)
SleptIn(l, i, j) ==
    IF i > j THEN 0
    ELSE (IF l[j][1] = "d" THEN l[j][2] ELSE 0) + SleptIn(l, i, j - 1)

\* the position in l of the k-th write attempt; 0 for k = 0, Len(l) + 1 when
\* there are fewer than k
AttemptAt(l, k) ==
    IF k = 0 THEN 0
    ELSE IF k > Len(SelectSeq(l, IsAttempt)) THEN Len(l) + 1
    ELSE CHOOSE p \in 1..Len(l) :
            /\ IsAttempt(l[p])
            /\ Len(SelectSeq(SubSeq(l, 1, p), IsAttempt)) = k

\* the microseconds slept after the write attempt a and before attempt b
\* (before the end of l when there is no attempt b)
SleptBetween(l, a, b) == SleptIn(l, AttemptAt(l, a) + 1, AttemptAt(l, b) - 1)

\* the last write attempt of the nibble transfer that starts with attempt a:
\* the transfer returns after a failed enable-high write
NibbleEnd(l, a) ==
    IF AttemptAt(l, a) <= Len(l) /\ IsFailure(l[AttemptAt(l, a)]) THEN a
    ELSE a + 1

\* the first write attempts of the three 0x30 transfers of i2clcd_init and of
\* the transfer after them; attempt 1 is the backlight byte
Reset1 == 2
Reset2 == NibbleEnd(log, Reset1) + 1
Reset3 == NibbleEnd(log, Reset2) + 1
Reset4 == NibbleEnd(log, Reset3) + 1

\* C27: i2clcd_init sleeps at least 50 ms before its first bus write, at
\* least 5 ms between the first and the second 0x30 nibble transfer, and at
\* least 150 us after the second and after the third before the next write,
\* whether the writes succeed or not.
C27_InitDelays ==
    (call.op = "init" /\ log # <<>>) =>
        /\ SleptBetween(log, 0, 1) >= 50000
        /\ SleptBetween(log, Reset2 - 1, Reset2) >= 5000
        /\ SleptBetween(log, Reset3 - 1, Reset3) >= 150
        /\ SleptBetween(log, Reset4 - 1, Reset4) >= 150

C27_Witness ==
    /\ InitDone
    /\ NoFailure(log)
    /\ Len(BusBytes(log)) = 25
    /\ SleptBetween(log, 0, 1) = 50000
    /\ SleptBetween(log, 3, 4) = 5050
    /\ SleptBetween(log, 5, 6) = 200
    /\ SleptBetween(log, 7, 8) = 200


\* the position of the first write attempt at or after position q of l,
\* 0 when there is none
RECURSIVE NextAttempt(_, _)
NextAttempt(l, q) ==
    IF q > Len(l) THEN 0
    ELSE IF IsAttempt(l[q]) THEN q
    ELSE NextAttempt(l, q + 1)

\* l[p] is a byte that reached the expander with enable high / low
EnableHigh(l, p) == IsWrite(l[p]) /\ Bit(l[p][2], 2) = 1
EnableLow(l, p) == IsWrite(l[p]) /\ Bit(l[p][2], 2) = 0

\* the writes of l after a write at p wait at least us microseconds
SettledAfter(l, p, us) ==
    NextAttempt(l, p + 1) # 0 => SleptIn(l, p + 1, NextAttempt(l, p + 1) - 1) >= us

\* C28 as claimed: at least 1 us passes between a write with enable high and
\* the write after it, at least 50 us between a write with enable low and
\* the write after it, and a byte with enable high is never followed on the
\* bus by another byte with enable high.
C28_EnablePulse ==
    \A p \in 1..Len(log) :
        /\ EnableHigh(log, p) => SettledAfter(log, p, HD44780_DELAY_ENABLE_US)
        /\ EnableLow(log, p) => SettledAfter(log, p, HD44780_DELAY_CMD_US)
        /\ \A q \in (p + 1)..Len(log) :
              (EnableHigh(log, p) /\ EnableHigh(log, q)) =>
                 \E r \in (p + 1)..(q - 1) : EnableLow(log, r)


\* C29: on a bus without failures i2clcd_clear puts command 0x01 and
\* i2clcd_home command 0x02 on the bus, register select clear, then sleeps
\* at least 1600 us after the last write, the sleep being the last thing the
\* call does, and returns I2CLCD_OK; when a write fails they return
\* I2CLCD_ERR_WRITE.
C29_ClearHomeSettle ==
    (call.op \in {"clear", "home"} /\ ~call.isnull) =>
        IF NoFailure(log)
        THEN /\ call.ret = I2CLCD_OK
             /\ BusBytes(log) =
                   Wire(IF call.op = "clear" THEN 1 ELSE 2, FALSE, ctx.backlight)
             /\ SleptBetween(log, 4, 5) >= 1600
             /\ log[Len(log)] = <<"d", HD44780_DELAY_CLEAR_US>>
        ELSE call.ret = I2CLCD_ERR_WRITE

C29_Witness ==
    /\ call.op = "home"
    /\ call.ret = I2CLCD_OK
    /\ BusBytes(log) = <<4, 0, 36, 32>>
    /\ SleptBetween(log, 4, 5) = 1650


\* C30: while i2clcd_delay_us sleeps, the time slept so far and the time
\* left in ts add up to the time requested (an interrupted wait goes on with
\* the rest: not from the start, not given up); when it returns it has slept
\* at least the time requested; and it returns, signals being finitely many.
C30_DelayHonored ==
    /\ [](delay.pc = "sleeping" =>
             delay.slept + Nanos(delay.ts) = delay.us * NsPerUs)
    /\ [](delay.pc = "returned" => delay.slept >= delay.us * NsPerUs)
    /\ (delay.pc = "sleeping" ~> delay.pc = "returned")

\* a settle delay of 1600 us that two signals interrupted
C30_Witness ==
    /\ delay.pc = "returned"
    /\ delay.us = HD44780_DELAY_CLEAR_US
    /\ delay.interrupts = 2
    /\ delay.slept = 1600000


\* C31: once a session exists no call changes its cols, rows, line_addr or
\* entry_mode, whether the call succeeds or fails, and entry_mode is
\* increment in every session.
C31_GeometryFixed ==
    /\ [](session = "open" => ctx.entry_mode = HD44780_ENTRY_INC)
    /\ [][session = "open" =>
             /\ ctx'.cols = ctx.cols
             /\ ctx'.rows = ctx.rows
             /\ ctx'.line_addr = ctx.line_addr
             /\ ctx'.entry_mode = ctx.entry_mode]_vars

\* a custom character whose transfer failed on a 20x4 session
C31_Witness ==
    /\ session = "open"
    /\ call.op = "create_char"
    /\ call.ret = I2CLCD_ERR_WRITE
    /\ ctx.cols = 20
    /\ ctx.rows = 4
    /\ ctx.line_addr = <<0, 64, 20, 84>>
    /\ ctx.entry_mode = HD44780_ENTRY_INC


\* the instructions that set an address, among those the controller executed
IsSetAddress(d) == d[1] = 0 /\ d[2] >= HD44780_CMD_SET_CGRAM
SetAddresses(l) == SelectSeq(CtlRun(CtlAligned, BusBytes(l)).done, IsSetAddress)

\* the last set-address instruction of l selects the character generator
EndsInCgram(l) ==
    /\ SetAddresses(l) # <<>>
    /\ SetAddresses(l)[Len(SetAddresses(l))][2] < HD44780_CMD_SET_DDRAM

PresetDims == {<<16, 2>>, <<20, 4>>}

\* the positions the range check of i2clcd_set_cursor lets through
ValidPositions(c) == (0..(c.cols - 1)) \X (0..(c.rows - 1))

\* the command byte i2clcd_set_cursor sends for (col, row) on a working bus
CursorCommand(c, col, row) ==
    SetAddresses(i2clcd_set_cursor(StartOn(FALSE, c, NoFault), col, row, 0).log)[1][2]

\* C33: on a session with the dimensions of the 16x2 or the 20x4 preset, a
\* set_cursor that returned OK sent the command byte 0x80 | addr with
\* addr <= 0x67, and set_cursor sends a different command byte for every
\* other valid position
C33_PresetAddressesDistinct ==
    (/\ call.op = "set_cursor" /\ call.ret = I2CLCD_OK
     /\ <<ctx.cols, ctx.rows>> \in PresetDims) =>
        /\ Len(SetAddresses(log)) = 1
        /\ SetAddresses(log)[1][2] = CursorCommand(ctx, call.col, call.row)
        /\ SetAddresses(log)[1][2] >= HD44780_CMD_SET_DDRAM
        /\ SetAddresses(log)[1][2] - HD44780_CMD_SET_DDRAM <= 103
        /\ \A p \in ValidPositions(ctx) :
              p # <<call.col, call.row>> =>
                  CursorCommand(ctx, p[1], p[2]) # SetAddresses(log)[1][2]

C33_Witness ==
    /\ call.op = "set_cursor" /\ call.ret = I2CLCD_OK
    /\ ctx.cols = 20 /\ ctx.rows = 4
    /\ call.col = 19 /\ call.row = 3
    /\ SetAddresses(log) = << <<0, 128 + 103, 4>> >>


(***************************************************************************)
(* The index at which line_addr is read                                    *)
(***************************************************************************)
LineOps == {"set_cursor", "clear_line", "set_line"}

\* the row argument the finished call handed to i2clcd_set_cursor
TableIndex == IF call.op = "set_cursor" THEN call.row ELSE call.line

\* the finished call went past the range check of i2clcd_set_cursor and so
\* evaluated line_addr[row]
ReadLineAddr ==
    /\ session = "open"
    /\ call.op \in LineOps
    /\ call.ret \in {I2CLCD_OK, I2CLCD_ERR_WRITE}

\* C34 as claimed: on every session that i2clcd_open or i2clcd_init returned,
\* a set_cursor, clear_line or set_line that reads line_addr reads it at an
\* index in 0..3.
C34_TableIndexInRange == ReadLineAddr => TableIndex < 4

\* the read past the table: row 4 accepted on a session of 5 rows
C34_Witness ==
    /\ ReadLineAddr /\ call.op = "set_cursor" /\ call.ret = I2CLCD_OK
    /\ ctx.rows = 5 /\ call.row = 4 /\ call.col = 0
    /\ SetAddresses(log) = << <<0, 128 + 127, 4>> >>

====
